---- MODULE Spec2Model ----
(***************************************************************************)
(* mcp-graphql-srv: the session/transport multiplexer of server.ts.        *)
(*                                                                         *)
(* Two registries (streamableTransports, sseTransports) map session ids to *)
(* transports.  /mcp creates or reuses Streamable HTTP sessions, GET /sse  *)
(* opens legacy SSE sessions and POST /messages posts to them.  A request  *)
(* handler is an async function: it runs to its next await in one step and *)
(* other handlers and callbacks run between the steps.                     *)
(*                                                                         *)
(* Time is counted in ticks of 30 minutes, so the 1 hour setTimeout of the *)
(* stream sessions is IdleWindow = 2 ticks.                                *)
(***************************************************************************)
EXTENDS Integers, Sequences, FiniteSets, TLC

\* Number of transports (sessions of either kind) ever created in a run.
MaxTransports == 2
\* Chunks the splitter makes of the schema.
MaxChunks == 5
\* Points a previous run left in the collection.
MaxPrevPoints == 2
\* The largest k a search asks for.
MaxK == 3
\* The chunks of the schema in the runs that go on to serve tool calls.
MaxLifeChunks == 2

\* timeoutMs = 1000 * 60 * 60, in ticks of 30 minutes.
IdleWindow == 2

\* The value of a lookup that finds nothing, and of an absent header, query
\* parameter or sessionId field (JavaScript undefined; falsy).
Undefined == 0

\* A session-id header or query parameter that is absent (or the empty
\* string: both are falsy for the handler's tests).
NoId == 0

\* A key such as "constructor", "toString" or "__proto__": no session was ever
\* issued under it, yet the registries are plain object literals ({}), so
\* registry[key] finds the property inherited from Object.prototype.
ProtoKey == -1

\* What registry[ProtoKey] evaluates to: a truthy value that is no transport
\* (it has no handleRequest / handlePostMessage method).
Inherited == -1

VARIABLES
    apiKey,                 \* env.MCP_API_KEY is configured
    streamableTransports,   \* session id -> transport, Streamable HTTP
    sseTransports,          \* session id -> transport, legacy SSE
    T,                      \* the transport objects ever created, in creation order
    escaped,                \* an exception left the idle-timeout callback
    ev,                     \* the request this step handled, if any
    process,                \* "running", or how the process exited
    serverInstance,         \* the HTTP listener: "null" until app.listen
    rpc,                    \* position of initializeVectorStore / refreshSchema
    outcome,                \* how the startup reindex settled
    vectors,                \* per chunk: the embedding task and its result
    collection,             \* the Qdrant collection COL
    before,                 \* the collection as the process found it
    runs,                   \* how the earlier runs of the process ended
    sr,                     \* the semantic search this step served, if any
    processEnv,             \* process.env, until EnvSchema.parse has read it
    env,                    \* the parsed settings
    tc                      \* the tool call in progress or just answered

muxVars == <<apiKey, streamableTransports, sseTransports, T, escaped, ev>>
ragVars == <<process, serverInstance, rpc, outcome, vectors, collection, before, runs, sr>>
toolVars == <<processEnv, env, tc>>
vars == <<muxVars, ragVars, toolVars>>

SessionIds == 1..MaxTransports
Headers == {NoId, ProtoKey} \cup SessionIds
\* A request body: an initialization message (isInitializeRequest) or not.
Bodies == {"init", "other"}
Keys == {"absent", "good", "bad"}

\* The X-API-Key values worth distinguishing: the middleware reads the header
\* only when a key is configured.
KeysFor(configured) == IF configured THEN Keys ELSE {"absent"}

NoEv == [op |-> "none", hdr |-> NoId, body |-> "none", key |-> "none", auth |-> "none",
         branch |-> "none", to |-> 0]

Min(a, b) == IF a < b THEN a ELSE b

(***************************************************************************)
(* Registries: JavaScript objects used as maps.                            *)
(***************************************************************************)
EmptyRegistry == [k \in {} |-> 0]

Put(reg, k, v) == [x \in (DOMAIN reg) \cup {k} |-> IF x = k THEN v ELSE reg[x]]

Delete(reg, k) == [x \in (DOMAIN reg) \ {k} |-> reg[x]]

\* registry[key] on a plain object: own property, else inherited, else undefined.
Lookup(reg, k) ==
    IF k \in DOMAIN reg THEN reg[k]
    ELSE IF k = ProtoKey THEN Inherited
    ELSE Undefined

Truthy(v) == v # Undefined

(***************************************************************************)
(* Fresh values.                                                           *)
(***************************************************************************)
\* A generator that hands every session the same id.
SessionIdGenerator_Constant(t) == 1

\* randomUUID(): a value no other call returns.  Every transport has its id
\* generated at most once (the SSE transport in its constructor, the stream
\* transport when the SDK handles its initialization request), so the fresh
\* id is named after the transport it is generated for.
SessionIdGenerator(t) == t

\* One server instance shared by all connections.
McpServer_Shared(t) == 1

\* new McpServer(...) inside buildMcpServer: a new object on every call.  Each
\* handler calls buildMcpServer once, so the new instance is named after the
\* transport of the handler that built it.
McpServer(t) == t

(***************************************************************************)
(* Authentication middleware (mounted on /mcp and /messages).              *)
(***************************************************************************)
\* A middleware that lets every request through.
authenticateApiKey_Off(configured, key) == "next"

\* A middleware that only asks for some key to be present.
authenticateApiKey_AnyKey(configured, key) ==
    IF ~configured THEN "next"
    ELSE IF key = "absent" THEN "401"
    ELSE "next"

authenticateApiKey(configured, key) ==
    IF ~configured THEN "next"
    ELSE IF key = "absent" THEN "401"
    ELSE IF key # "good" THEN "403"
    ELSE "next"

(***************************************************************************)
(* Transport objects.                                                      *)
(*   pc        position of the handler that created the transport: awaiting*)
(*             buildMcpServer ("build"), awaiting server.connect            *)
(*             ("connect"), past it ("handle" for /mcp, whose last await,   *)
(*             transport.handleRequest, has no code after it; "done" for    *)
(*             /sse)                                                        *)
(*   sessionId transport.sessionId (Undefined until the SDK assigns it)    *)
(*   server    the McpServer that connect() was called on with it, or 0    *)
(*   started   server.connect(transport) has resolved                      *)
(*   closed    the transport has signalled close (stream: onclose ran;     *)
(*             sse: the response's "close" event fired)                    *)
(*   closeCalls number of transport.close() calls made by the idle callback*)
(*   handle    sessionTimeoutHandle: "null", "armed", "fired", "cleared"   *)
(*   remaining ticks until the armed timer is due                          *)
(*   idle      ticks since the session last saw a request (capped)         *)
(*   raced     history: another /mcp create handler was suspended when     *)
(*             this one's session was initialized                          *)
(***************************************************************************)
NewTransport(kind, sid) ==
    [kind |-> kind, pc |-> "build", sessionId |-> sid, server |-> 0,
     started |-> FALSE, closed |-> FALSE, closeCalls |-> 0,
     handle |-> "null", remaining |-> 0, idle |-> 0, raced |-> FALSE]

\* clearTimeout that cancels nothing.
ClearTimeout_Noop(tr) == tr

\* clearTimeout(handle): cancels a pending timer, no effect on a spent one.
\* (remaining and idle are kept only while the timer is pending.)
ClearTimeout(tr) ==
    IF tr.handle = "armed"
    THEN [tr EXCEPT !.handle = "cleared", !.remaining = 0, !.idle = 0]
    ELSE tr

\* sessionTimeoutHandle = setTimeout(..., timeoutMs)
SetTimeout(tr) == [tr EXCEPT !.handle = "armed", !.remaining = IdleWindow, !.idle = 0]

\* transport.onclose of a stream transport, on the transport record ...
StreamOnCloseT(tr) ==
    IF tr.sessionId # Undefined
    THEN IF tr.handle # "null" THEN ClearTimeout(tr) ELSE tr
    ELSE tr

\* An onclose that leaves the registry entry in place.
StreamOnCloseReg_Keep(reg, tr) == reg

\* ... and on the registry.
StreamOnCloseReg(reg, tr) ==
    IF tr.sessionId # Undefined THEN Delete(reg, tr.sessionId) ELSE reg

\* onsessioninitialized: streamableTransports[id] = transport
OnSessionInitializedReg(reg, id, t) == Put(reg, id, t)

(***************************************************************************)
(* The vector store (rag.ts) and the startup sequence.                     *)
(***************************************************************************)
\* pLimit(3)
ConcurrencyLimit == 3

\* An element of "vectors" while its task is still queued in the limiter or
\* running, and once the task has returned null; a task that returned
\* { chunk, vec } is recorded by vec.length.
Queued == -2
Running == -1
Null == 0

\* r.data[0].embedding.length: the length the model's vectors have, and a
\* different one.
Dims == {1, 2}

\* A chunk of this run is named by its position in docs (1..n); the payload
\* texts of a previous run's points are named by negative numbers.
PrevText(i) == 0 - (i + 1)

NoCollection == [exists |-> FALSE, size |-> 0, points |-> {}]

\* What an earlier run of the program can have left in Qdrant: nothing, or a
\* collection holding points 0..m-1 (m = 0 after an upsert that failed).
PrevCollections ==
    {NoCollection} \cup
    { [exists |-> TRUE, size |-> 1,
       points |-> { [id |-> i, vector |-> 1, text |-> PrevText(i)] : i \in 0..(m - 1) }]
      : m \in 0..MaxPrevPoints }

\* A question, by the order in which it ranks the points: nearest first by
\* rising or by falling id.
Questions == {"rising", "falling"}

NoSr == [op |-> "none", question |-> "none", k |-> 0, status |-> "none", hits |-> <<>>]

\* Number of embedding requests in flight.
InFlight(vs) == Cardinality({i \in DOMAIN vs : vs[i] = Running})

\* A limiter that starts every task at once.
pLimit_Unbounded(concurrency, running) == TRUE

\* limit(fn): fn is started when fewer than "concurrency" tasks are running.
pLimit(concurrency, running) == running < concurrency

\* A batch that stops at the first chunk whose embedding failed.
validVectors_StopAtFailure(vs) ==
    LET firstNull == IF \E i \in DOMAIN vs : vs[i] = Null
                     THEN CHOOSE i \in DOMAIN vs :
                              vs[i] = Null /\ \A j \in 1..(i - 1) : vs[j] # Null
                     ELSE Len(vs) + 1
    IN  [i \in 1..(firstNull - 1) |-> [chunk |-> i, vec |-> vs[i]]]

\* vectors.filter(v => v !== null), each survivor with its chunk.
validVectors(vs) ==
    SelectSeq([i \in 1..Len(vs) |-> [chunk |-> i, vec |-> vs[i]]],
              LAMBDA v : v.vec # Null)

\* Points numbered by the chunk's position in docs.
PointId_DocIndex(v, i) == v.chunk - 1

\* "id: i" in validVectors.map((v, i) => ...): i counts from 0.
PointId(v, i) == i - 1

\* The points array of the upsert request.
Points(valid) ==
    [i \in DOMAIN valid |->
        [id |-> PointId(valid[i], i), vector |-> valid[i].vec, text |-> valid[i].chunk]]

\* A recreateCollection that keeps the points it finds.
RecreateCollection_Keep(col, size) == [col EXCEPT !.exists = TRUE, !.size = size]

\* qdrant.recreateCollection: delete, then create empty with the given size.
RecreateCollection(col, size) == [exists |-> TRUE, size |-> size, points |-> {}]

\* qdrant.upsert: a point replaces the stored point with the same id; of two
\* request points with the same id the later one stays.
Upsert(col, pts) ==
    LET last == { pts[i] : i \in { j \in DOMAIN pts :
                                   \A l \in DOMAIN pts : l > j => pts[l].id # pts[j].id } }
    IN  [col EXCEPT !.points =
            { q \in col.points : q.id \notin { x.id : x \in last } } \cup last]

\* A store that takes vectors of any length.
UpsertAccepted_AnyLength(col, pts) == TRUE

\* Qdrant refuses an upsert holding a vector whose length is not the
\* collection's size.
UpsertAccepted(col, pts) == \A i \in DOMAIN pts : pts[i].vector = col.size

\* A search that ignores the limit it is given.
SearchLimit_All(k, n) == n

\* "limit: k": Qdrant returns the k nearest points, or all if there are fewer.
SearchLimit(k, n) == Min(k, n)

\* The points in the order of their distance from the question.
RECURSIVE Ranked(_, _)
Ranked(points, question) ==
    IF points = {} THEN <<>>
    ELSE LET nearest == CHOOSE p \in points : \A q \in points :
                            IF question = "rising" THEN p.id <= q.id ELSE p.id >= q.id
         IN  <<nearest>> \o Ranked(points \ {nearest}, question)

\* qdrant.search: the nearest points, nearest first.
QdrantSearch(points, question, k) ==
    SubSeq(Ranked(points, question), 1, SearchLimit(k, Cardinality(points)))

\* A point whose payload has no text.
NoText == 0

\* A string is a sequence of tokens: a stored text is one token, named by its
\* chunk, and '' is the empty sequence.
\* A mapping that leaves out the hits without text.
HitTexts_DropMissing(h) ==
    LET kept == SelectSeq(h, LAMBDA x : x.text # NoText)
    IN  [i \in DOMAIN kept |-> <<kept[i].text>>]

\* hits.map(h => h.payload?.text ?? '')
HitTexts(h) == [i \in DOMAIN h |-> IF h[i].text = NoText THEN <<>> ELSE <<h[i].text>>]

\* An "await initializeVectorStore()" that does not wait.
Awaited_NoWait(pc) == TRUE

\* "await initializeVectorStore()": the startup continues once it has settled.
Awaited(pc) == pc = "settled"

\* A catch block with the process.exit(1) the source has commented out.
CatchFatal_Exit(p) == "exit1"

\* The catch block of initializeVectorStore logs and returns.
CatchFatal(p) == p

\* The multiplexer of sections 3-A and 3-B runs in a process that has started
\* listening; the collection plays no part in it.
RagParked ==
    /\ process = "running"
    /\ serverInstance = "listening"
    /\ rpc = "settled"
    /\ outcome = "load-failed"
    /\ vectors = <<>>
    /\ collection = NoCollection
    /\ before = NoCollection
    /\ runs = <<>>
    /\ sr = NoSr

MuxInit ==
    /\ streamableTransports = EmptyRegistry
    /\ sseTransports = EmptyRegistry
    /\ T = <<>>
    /\ escaped = FALSE
    /\ ev = NoEv

(***************************************************************************)
(* Settings (EnvSchema) and the tools' vocabulary.                         *)
(***************************************************************************)
\* JSON.parse accepts the text.
JsonValid(text) == text \in {"{}", "null", "[]", "{data}", "{errors}", "{errors:[]}"}

\* process.env as the operator can set it: a variable is absent or holds a
\* string.
RawEnvs ==
    [ALLOW_MUTATIONS : {"absent", "true", "false", "yes"},
     HEADERS : {"absent", "{}", "{"},
     ENDPOINT : {"absent", "http://host/graphql", "not a url"}]

\* process.env once parsed: it is not read again.
ConsumedEnv == [ALLOW_MUTATIONS |-> "absent", HEADERS |-> "absent", ENDPOINT |-> "absent"]

\* "let env" before the assignment.
EnvUnset == [ALLOW_MUTATIONS |-> FALSE, HEADERS |-> "unset"]

\* A schema that takes every value of ALLOW_MUTATIONS other than "true" as false.
EnvSchema_Lenient(raw) ==
    [ok |-> /\ raw.ENDPOINT # "not a url"
            /\ raw.HEADERS = "absent" \/ JsonValid(raw.HEADERS),
     value |-> [ALLOW_MUTATIONS |-> raw.ALLOW_MUTATIONS = "true",
                HEADERS |-> IF raw.HEADERS = "absent" THEN "{}" ELSE raw.HEADERS]]

\* EnvSchema.parse(process.env): ok is FALSE when parse throws.
EnvSchema(raw) ==
    LET allow == IF raw.ALLOW_MUTATIONS = "absent" THEN "false" ELSE raw.ALLOW_MUTATIONS
        headers == IF raw.HEADERS = "absent" THEN "{}" ELSE raw.HEADERS
    IN  [ok |-> /\ raw.ENDPOINT # "not a url"
                /\ allow \in {"true", "false"}
                /\ JsonValid(headers),
         value |-> [ALLOW_MUTATIONS |-> allow = "true", HEADERS |-> headers]]

NoResult == [isError |-> FALSE, message |-> "none", body |-> <<>>, detail |-> "none"]

\* A tool call: its arguments, where its handler is, the external calls it has
\* made, what the upstream answered and what the handler returned.
NoTc ==
    [tool |-> "none", pc |-> "idle", question |-> "none", k |-> 0,
     query |-> <<>>, variables |-> "absent",
     embeds |-> 0, searches |-> 0, fetches |-> 0,
     responded |-> FALSE, status |-> "none", thrown |-> FALSE, result |-> NoResult]

\* The multiplexer and the startup run with settings that parsed; no tool is
\* being called.
ToolParked ==
    /\ processEnv = ConsumedEnv
    /\ env = EnvSchema(ConsumedEnv).value
    /\ tc = NoTc

Init ==
    /\ apiKey \in BOOLEAN
    /\ MuxInit
    /\ RagParked
    /\ ToolParked


(***************************************************************************)
(* 3-A  app.all("/mcp"): the handler up to its first await.                *)
(***************************************************************************)
\* A reuse branch that drops the entry it has just used.
McpReuse_Drop(t, body) ==
    /\ T' = [T EXCEPT ![t].idle = 0]
    /\ streamableTransports' = Delete(streamableTransports, T[t].sessionId)

\* The reuse branch: the request is handed to the registered transport
\* (transport.handleRequest), which is traffic on its session.  No timer is
\* touched.
McpReuse(t, body) ==
    /\ T' = [T EXCEPT ![t].idle = 0]
    /\ UNCHANGED streamableTransports

\* The create branch up to "await buildMcpServer()".
McpCreate ==
    /\ Len(T) < MaxTransports
    /\ T' = Append(T, NewTransport("stream", Undefined))
    /\ UNCHANGED streamableTransports

McpRequest(hdr, body, key) ==
    LET a == authenticateApiKey(apiKey, key)
        found == Lookup(streamableTransports, hdr)
        e == [op |-> "mcp", hdr |-> hdr, body |-> body, key |-> key, auth |-> a,
              branch |-> "auth", to |-> 0]
    IN  /\ IF a # "next"
           THEN \* answered by the middleware: the handler never sees the request
                /\ ev' = [e EXCEPT !.hdr = NoId, !.body = "none"]
                /\ UNCHANGED <<T, streamableTransports>>
           ELSE IF hdr # NoId /\ Truthy(found)
           THEN IF found = Inherited
                THEN \* transport.handleRequest is not a function
                     /\ ev' = [e EXCEPT !.branch = "typeerror"]
                     /\ UNCHANGED <<T, streamableTransports>>
                ELSE /\ ev' = [e EXCEPT !.branch = "reuse", !.to = found]
                     /\ McpReuse(found, body)
           ELSE IF hdr = NoId /\ body = "init"
           THEN /\ ev' = [e EXCEPT !.branch = "create", !.to = Len(T) + 1]
                /\ McpCreate
           ELSE /\ ev' = [e EXCEPT !.branch = "400"]
                /\ UNCHANGED <<T, streamableTransports>>
        /\ UNCHANGED <<toolVars, ragVars, apiKey, sseTransports, escaped>>

\* "const server = await buildMcpServer()" resumes; server.connect(transport)
\* is called.
McpBuilt(t) ==
    /\ t \in DOMAIN T
    /\ T[t].kind = "stream"
    /\ T[t].pc = "build"
    /\ T' = [T EXCEPT ![t].pc = "connect", ![t].server = McpServer(t)]
    /\ ev' = NoEv
    /\ UNCHANGED <<toolVars, ragVars, apiKey, streamableTransports, sseTransports, escaped>>

\* "await server.connect(transport)" resumes; transport.handleRequest is
\* called with the initialization body: the SDK generates the session id and
\* calls onsessioninitialized, which registers the transport and arms the
\* timer.
McpConnected(t) ==
    /\ t \in DOMAIN T
    /\ T[t].kind = "stream"
    /\ T[t].pc = "connect"
    /\ LET id == SessionIdGenerator(t)
           others == \E u \in DOMAIN T :
                        u # t /\ T[u].kind = "stream" /\ T[u].pc \in {"build", "connect"}
       IN  /\ T' = [T EXCEPT ![t] = SetTimeout([@ EXCEPT !.pc = "handle",
                                                        !.started = TRUE,
                                                        !.sessionId = id,
                                                        !.raced = others])]
           /\ streamableTransports' = OnSessionInitializedReg(streamableTransports, id, t)
    /\ ev' = NoEv
    /\ UNCHANGED <<toolVars, ragVars, apiKey, sseTransports, escaped>>

(***************************************************************************)
(* transport.onclose of a stream session: the SDK signals that the         *)
(* transport closed (the client terminated the session).  Only a transport *)
(* with an established session can be reached by a client.                 *)
(***************************************************************************)
TransportCloseSignal(t) ==
    /\ t \in DOMAIN T
    /\ T[t].kind = "stream"
    /\ T[t].sessionId # Undefined
    /\ ~T[t].closed
    /\ T' = [T EXCEPT ![t] = StreamOnCloseT([@ EXCEPT !.closed = TRUE])]
    /\ streamableTransports' = StreamOnCloseReg(streamableTransports, T[t])
    /\ ev' = NoEv
    /\ UNCHANGED <<toolVars, ragVars, apiKey, sseTransports, escaped>>

(***************************************************************************)
(* The idle-timeout callback of a stream session.  transport.close() either*)
(* closes the transport, which signals onclose, or throws.                 *)
(***************************************************************************)
\* The callback without its try/catch.
IdleCallbackEscapes_NoCatch(throws) == throws

\* try { transport.close() } catch (e) { /* ignore */ }
IdleCallbackEscapes(throws) == FALSE

\* A callback that closes the transport but keeps the registry entry.
IdleTimeoutReg_Keep(reg, id) == reg

\* delete streamableTransports[id]
IdleTimeoutReg(reg, id) == Delete(reg, id)

IdleTimeout(t) ==
    /\ t \in DOMAIN T
    /\ T[t].handle = "armed"
    /\ T[t].remaining = 0
    /\ \E throws \in BOOLEAN :
         LET fired == [T[t] EXCEPT !.handle = "fired", !.remaining = 0, !.idle = 0]
             reg == IdleTimeoutReg(streamableTransports, T[t].sessionId)
         IN  IF throws
             THEN /\ T' = [T EXCEPT ![t] = [fired EXCEPT !.closeCalls = @ + 1]]
                  /\ streamableTransports' = reg
                  /\ escaped' = (escaped \/ IdleCallbackEscapes(TRUE))
             ELSE /\ T' = [T EXCEPT ![t] = StreamOnCloseT([fired EXCEPT !.closed = TRUE,
                                                                       !.closeCalls = @ + 1])]
                  /\ streamableTransports' = StreamOnCloseReg(reg, fired)
                  /\ escaped' = (escaped \/ IdleCallbackEscapes(FALSE))
    /\ ev' = NoEv
    /\ UNCHANGED <<toolVars, ragVars, apiKey, sseTransports>>

\* Half an hour passes.
Tick ==
    /\ T' = [t \in DOMAIN T |->
               IF T[t].handle = "armed"
               THEN [T[t] EXCEPT !.remaining = IF @ > 0 THEN @ - 1 ELSE @,
                                 !.idle = Min(@ + 1, IdleWindow)]
               ELSE T[t]]
    /\ ev' = NoEv
    /\ UNCHANGED <<toolVars, ragVars, apiKey, streamableTransports, sseTransports, escaped>>

(***************************************************************************)
(* 3-B  legacy SSE: app.get("/sse") and app.post("/messages").             *)
(***************************************************************************)
\* GET /sse up to "await buildMcpServer()": the transport gets its session id
\* in its constructor and is registered at once.  The route is mounted without
\* authenticateApiKey, so whatever key the request carries is never read.
SseOpen(key) ==
    /\ Len(T) < MaxTransports
    /\ LET id == SessionIdGenerator(Len(T) + 1)
       IN  /\ T' = Append(T, NewTransport("sse", id))
           /\ sseTransports' = Put(sseTransports, id, Len(T) + 1)
           /\ ev' = [NoEv EXCEPT !.op = "sse", !.key = key, !.branch = "open",
                                  !.to = Len(T) + 1]
    /\ UNCHANGED <<toolVars, ragVars, apiKey, streamableTransports, escaped>>

SseBuilt(t) ==
    /\ t \in DOMAIN T
    /\ T[t].kind = "sse"
    /\ T[t].pc = "build"
    /\ T' = [T EXCEPT ![t].pc = "connect", ![t].server = McpServer(t)]
    /\ ev' = NoEv
    /\ UNCHANGED <<toolVars, ragVars, apiKey, streamableTransports, sseTransports, escaped>>

SseConnected(t) ==
    /\ t \in DOMAIN T
    /\ T[t].kind = "sse"
    /\ T[t].pc = "connect"
    /\ T' = [T EXCEPT ![t].pc = "done", ![t].started = TRUE]
    /\ ev' = NoEv
    /\ UNCHANGED <<toolVars, ragVars, apiKey, streamableTransports, sseTransports, escaped>>

\* res.on("close"): the client's stream connection ended.
SseClose(t) ==
    /\ t \in DOMAIN T
    /\ T[t].kind = "sse"
    /\ ~T[t].closed
    /\ T' = [T EXCEPT ![t].closed = TRUE]
    /\ sseTransports' = Delete(sseTransports, T[t].sessionId)
    /\ ev' = NoEv
    /\ UNCHANGED <<toolVars, ragVars, apiKey, streamableTransports, escaped>>

\* A handler that looks the session up in both registries.
PostMessages_AnyRegistry(q, key) ==
    LET a == authenticateApiKey(apiKey, key)
        legacy == Lookup(sseTransports, q)
        transport == IF Truthy(legacy) THEN legacy ELSE Lookup(streamableTransports, q)
        e == [op |-> "messages", hdr |-> q, body |-> "other", key |-> key, auth |-> a,
              branch |-> "auth", to |-> 0]
    IN  /\ ev' = IF a # "next" THEN [e EXCEPT !.hdr = NoId, !.body = "none"]
                 ELSE IF ~Truthy(transport) THEN [e EXCEPT !.branch = "400"]
                 ELSE IF transport = Inherited THEN [e EXCEPT !.branch = "typeerror"]
                 ELSE [e EXCEPT !.branch = "deliver", !.to = transport]
        /\ UNCHANGED <<toolVars, ragVars, apiKey, streamableTransports, sseTransports, T, escaped>>

PostMessages(q, key) ==
    LET a == authenticateApiKey(apiKey, key)
        transport == Lookup(sseTransports, q)
        e == [op |-> "messages", hdr |-> q, body |-> "other", key |-> key, auth |-> a,
              branch |-> "auth", to |-> 0]
    IN  /\ ev' = IF a # "next" THEN [e EXCEPT !.hdr = NoId, !.body = "none"]
                 ELSE IF ~Truthy(transport) THEN [e EXCEPT !.branch = "400"]
                 ELSE IF transport = Inherited
                      THEN \* transport.handlePostMessage is not a function
                           [e EXCEPT !.branch = "typeerror"]
                 ELSE [e EXCEPT !.branch = "deliver", !.to = transport]
        /\ UNCHANGED <<toolVars, ragVars, apiKey, streamableTransports, sseTransports, T, escaped>>

Next ==
    \/ \E hdr \in Headers, body \in Bodies, key \in KeysFor(apiKey) : McpRequest(hdr, body, key)
    \/ \E t \in 1..MaxTransports : McpBuilt(t)
    \/ \E t \in 1..MaxTransports : McpConnected(t)
    \/ \E t \in 1..MaxTransports : TransportCloseSignal(t)
    \/ \E t \in 1..MaxTransports : IdleTimeout(t)
    \/ Tick
    \/ \E key \in KeysFor(apiKey) : SseOpen(key)
    \/ \E t \in 1..MaxTransports : SseBuilt(t)
    \/ \E t \in 1..MaxTransports : SseConnected(t)
    \/ \E t \in 1..MaxTransports : SseClose(t)
    \/ \E q \in Headers, key \in KeysFor(apiKey) : PostMessages(q, key)

Spec == Init /\ [][Next]_vars

\* Time passes and a due timer callback runs; nothing obliges a client to send
\* a request or to close a connection.
FairSpec ==
    /\ Spec
    /\ WF_vars(Tick)
    /\ WF_vars(\E t \in 1..MaxTransports : IdleTimeout(t))

\* The same program with every X-API-Key value sent whether or not a key is
\* configured.
AuthNext ==
    \/ \E hdr \in Headers, body \in Bodies, key \in Keys : McpRequest(hdr, body, key)
    \/ \E t \in 1..MaxTransports : McpBuilt(t)
    \/ \E t \in 1..MaxTransports : McpConnected(t)
    \/ \E t \in 1..MaxTransports : TransportCloseSignal(t)
    \/ \E t \in 1..MaxTransports : IdleTimeout(t)
    \/ Tick
    \/ \E key \in Keys : SseOpen(key)
    \/ \E t \in 1..MaxTransports : SseBuilt(t)
    \/ \E t \in 1..MaxTransports : SseConnected(t)
    \/ \E t \in 1..MaxTransports : SseClose(t)
    \/ \E q \in Headers, key \in Keys : PostMessages(q, key)

AuthSpec == Init /\ [][AuthNext]_vars

TypeOK ==
    /\ apiKey \in BOOLEAN
    /\ Len(T) <= MaxTransports
    /\ DOMAIN streamableTransports \subseteq SessionIds
    /\ DOMAIN sseTransports \subseteq SessionIds

(***************************************************************************)
(* 4  Startup: the async block awaits initializeVectorStore, then calls    *)
(* app.listen.  initializeVectorStore loads the schema and awaits          *)
(* refreshSchema; each action below is the code between two awaits.        *)
(***************************************************************************)
\* The settings a startup is tried with.  The startup never reads
\* ALLOW_MUTATIONS, so of its two valid values one stands for both.
StartupEnvs == {e \in RawEnvs : e.ALLOW_MUTATIONS # "true"}

\* The startup sequence never reads MCP_API_KEY: one value stands for both.
StartupInit ==
    /\ apiKey = FALSE
    /\ MuxInit
    /\ process = "running"
    /\ serverInstance = "null"
    /\ rpc = "env"
    /\ outcome = "none"
    /\ vectors = <<>>
    /\ collection \in PrevCollections
    /\ before = collection
    /\ runs = <<>>
    /\ sr = NoSr
    /\ processEnv \in StartupEnvs
    /\ env = EnvUnset
    /\ tc = NoTc

\* "env = EnvSchema.parse(process.env)" at the top of the module: the catch
\* block calls process.exit(1).
ParseEnv ==
    /\ process = "running"
    /\ rpc = "env"
    /\ LET r == EnvSchema(processEnv)
       IN  IF r.ok
           THEN /\ env' = r.value
                /\ processEnv' = ConsumedEnv
                /\ rpc' = "load"
                /\ UNCHANGED <<process, outcome>>
           ELSE /\ process' = "exit1"
                /\ UNCHANGED <<env, processEnv, rpc, outcome>>
    /\ sr' = NoSr
    /\ UNCHANGED <<serverInstance, vectors, collection, before, runs, tc, muxVars>>

\* introspectLocalSchema / introspectEndpoint returns the SDL or throws into
\* the catch block of initializeVectorStore.
LoadSchema(ok) ==
    /\ process = "running"
    /\ rpc = "load"
    /\ IF ok
       THEN /\ rpc' = "split"
            /\ UNCHANGED <<process, outcome>>
       ELSE /\ rpc' = "settled"
            /\ outcome' = "load-failed"
            /\ process' = CatchFatal(process)
    /\ sr' = NoSr
    /\ UNCHANGED <<serverInstance, vectors, collection, before, runs, muxVars, toolVars>>

\* refreshSchema from splitter.splitText to the docs.map(...) that hands one
\* task per chunk to the limiter.
SplitText(n, ok) ==
    /\ process = "running"
    /\ rpc = "split"
    /\ IF ~ok
       THEN /\ rpc' = "settled"
            /\ outcome' = "split-failed"
            /\ process' = CatchFatal(process)
            /\ UNCHANGED vectors
       ELSE IF n = 0
       THEN /\ rpc' = "settled"
            /\ outcome' = "no-chunks"
            /\ UNCHANGED <<process, vectors>>
       ELSE /\ rpc' = "embed"
            /\ vectors' = [i \in 1..n |-> Queued]
            /\ UNCHANGED <<process, outcome>>
    /\ sr' = NoSr
    /\ UNCHANGED <<serverInstance, collection, before, runs, muxVars, toolVars>>

\* The limiter starts the oldest queued task: openai.embeddings.create is
\* called for chunk i.
EmbedStart(i) ==
    /\ process = "running"
    /\ rpc = "embed"
    /\ i \in DOMAIN vectors
    /\ vectors[i] = Queued
    /\ \A j \in 1..(i - 1) : vectors[j] # Queued
    /\ pLimit(ConcurrencyLimit, InFlight(vectors))
    /\ vectors' = [vectors EXCEPT ![i] = Running]
    /\ sr' = NoSr
    /\ UNCHANGED <<process, serverInstance, rpc, outcome, collection, before, runs, muxVars, toolVars>>

\* A task that asks again for the embedding of a chunk whose request failed.
EmbedDone_Retry(i, r) ==
    /\ process = "running"
    /\ rpc = "embed"
    /\ i \in DOMAIN vectors
    /\ vectors[i] = Running
    /\ vectors' = [vectors EXCEPT ![i] = IF r = Null THEN Queued ELSE r]
    /\ sr' = NoSr
    /\ UNCHANGED <<process, serverInstance, rpc, outcome, collection, before, runs, muxVars, toolVars>>

\* The embedding request of chunk i returns a vector of length r, or fails and
\* the task's catch returns null.
EmbedDone(i, r) ==
    /\ process = "running"
    /\ rpc = "embed"
    /\ i \in DOMAIN vectors
    /\ vectors[i] = Running
    /\ vectors' = [vectors EXCEPT ![i] = r]
    /\ sr' = NoSr
    /\ UNCHANGED <<process, serverInstance, rpc, outcome, collection, before, runs, muxVars, toolVars>>

\* A refreshSchema that recreates the collection before it looks at what was
\* embedded.
EmbedAllSettled_RecreateFirst ==
    /\ process = "running"
    /\ rpc = "embed"
    /\ \A i \in DOMAIN vectors : vectors[i] \notin {Queued, Running}
    /\ collection' = RecreateCollection(collection, 1)
    /\ IF validVectors(vectors) = <<>>
       THEN /\ rpc' = "settled"
            /\ outcome' = "no-vectors"
       ELSE /\ rpc' = "upsert"
            /\ UNCHANGED outcome
    /\ sr' = NoSr
    /\ UNCHANGED <<process, serverInstance, vectors, before, runs, muxVars, toolVars>>

\* Promise.all resolves: filter, the "no vectors" return, and the call of
\* qdrant.recreateCollection.
EmbedAllSettled ==
    /\ process = "running"
    /\ rpc = "embed"
    /\ \A i \in DOMAIN vectors : vectors[i] \notin {Queued, Running}
    /\ IF validVectors(vectors) = <<>>
       THEN /\ rpc' = "settled"
            /\ outcome' = "no-vectors"
       ELSE /\ rpc' = "recreate"
            /\ UNCHANGED outcome
    /\ sr' = NoSr
    /\ UNCHANGED <<process, serverInstance, vectors, collection, before, runs, muxVars, toolVars>>

\* A refreshSchema that goes on to the upsert when recreateCollection threw.
RecreateDone_UpsertAnyway(r) ==
    /\ process = "running"
    /\ rpc = "recreate"
    /\ collection' = IF r = "ok"
                     THEN RecreateCollection(collection, validVectors(vectors)[1].vec)
                     ELSE IF r = "dropped" THEN NoCollection ELSE collection
    /\ rpc' = "upsert"
    /\ sr' = NoSr
    /\ UNCHANGED <<process, serverInstance, outcome, vectors, before, runs, muxVars, toolVars>>

\* recreateCollection returns, and qdrant.upsert is called; or it throws into
\* the catch block of refreshSchema, having deleted the collection or not.
RecreateDone(r) ==
    /\ process = "running"
    /\ rpc = "recreate"
    /\ IF r = "ok"
       THEN /\ collection' = RecreateCollection(collection, validVectors(vectors)[1].vec)
            /\ rpc' = "upsert"
            /\ UNCHANGED outcome
       ELSE /\ collection' = IF r = "dropped" THEN NoCollection ELSE collection
            /\ rpc' = "settled"
            /\ outcome' = "qdrant-failed"
    /\ sr' = NoSr
    /\ UNCHANGED <<process, serverInstance, vectors, before, runs, muxVars, toolVars>>

\* upsert returns; or it throws into the catch block of refreshSchema: Qdrant
\* refused the points or was not reached ("failed"), or it stored them and the
\* answer was lost ("lost").
UpsertDone(r) ==
    /\ process = "running"
    /\ rpc = "upsert"
    /\ LET pts == Points(validVectors(vectors))
       IN  /\ r = "ok" => UpsertAccepted(collection, pts)
           /\ r = "lost" => UpsertAccepted(collection, pts)
           /\ collection' = IF r = "failed" THEN collection ELSE Upsert(collection, pts)
    /\ rpc' = "settled"
    /\ outcome' = IF r = "ok" THEN "done" ELSE "qdrant-failed"
    /\ sr' = NoSr
    /\ UNCHANGED <<process, serverInstance, vectors, before, runs, muxVars, toolVars>>

\* serverInstance = app.listen(PORT): the port is bound, or the 'error'
\* listener calls process.exit(1).
Listen(ok) ==
    /\ process = "running"
    /\ serverInstance = "null"
    /\ Awaited(rpc)
    /\ IF ok
       THEN /\ serverInstance' = "listening"
            /\ UNCHANGED process
       ELSE /\ serverInstance' = "error"
            /\ process' = "exit1"
    /\ sr' = NoSr
    /\ UNCHANGED <<rpc, outcome, vectors, collection, before, runs, muxVars, toolVars>>

\* A handler that exits at once.
Sigterm_ExitNow ==
    /\ process = "running"
    /\ rpc # "env"
    /\ process' = IF serverInstance = "null" THEN "exit1" ELSE "exit0"
    /\ sr' = NoSr
    /\ UNCHANGED <<serverInstance, rpc, outcome, vectors, collection, before, runs, muxVars, toolVars>>

\* process.on("SIGTERM"); the handler is registered after the settings parsed.
Sigterm ==
    /\ process = "running"
    /\ rpc # "env"
    /\ IF serverInstance = "null"
       THEN /\ process' = "exit1"
            /\ UNCHANGED serverInstance
       ELSE /\ serverInstance' = "closing"
            /\ UNCHANGED process
    /\ sr' = NoSr
    /\ UNCHANGED <<rpc, outcome, vectors, collection, before, runs, muxVars, toolVars>>

\* The callback of serverInstance.close: Node calls it once the listener has
\* stopped and every connection it accepted has ended.  The response of a
\* legacy push stream is a connection that stays open until the client ends it.
ServerClosed ==
    /\ process = "running"
    /\ serverInstance = "closing"
    /\ \A t \in DOMAIN T : T[t].kind = "sse" => T[t].closed
    /\ serverInstance' = "closed"
    /\ process' = "exit0"
    /\ sr' = NoSr
    /\ UNCHANGED <<rpc, outcome, vectors, collection, before, runs, muxVars, toolVars>>

\* The process has ended and is started again with settings e: the module
\* runs from its top against the collection the last run left.  What the
\* ended run's reindex made of the schema is noted.
Restart(e) ==
    /\ process # "running"
    /\ runs = <<>>
    /\ runs' = Append(runs, [outcome |-> outcome, docs |-> Len(vectors),
                             failed |-> Cardinality({i \in DOMAIN vectors : vectors[i] = Null})])
    /\ process' = "running"
    /\ serverInstance' = "null"
    /\ rpc' = "env"
    /\ outcome' = "none"
    /\ vectors' = <<>>
    /\ before' = collection
    /\ sr' = NoSr
    /\ processEnv' = e
    /\ env' = EnvUnset
    /\ tc' = NoTc
    /\ UNCHANGED <<collection, muxVars>>

\* semanticSearch(question, k), called by the search-schema tool of a session:
\* the listener must have accepted the session's connection.  The embedding
\* of the question or the Qdrant search may throw.
SemanticSearch(question, k, ok) ==
    /\ process = "running"
    /\ serverInstance \in {"listening", "closing"}
    /\ IF ok /\ collection.exists
       THEN sr' = [op |-> "search", question |-> question, k |-> k, status |-> "ok",
                   hits |-> HitTexts(QdrantSearch(collection.points, question, k))]
       ELSE sr' = [op |-> "search", question |-> question, k |-> k, status |-> "error",
                   hits |-> <<>>]
    /\ UNCHANGED <<process, serverInstance, rpc, outcome, vectors, collection, before, runs, muxVars, toolVars>>

StartupNext ==
    \/ ParseEnv
    \/ \E ok \in BOOLEAN : LoadSchema(ok)
    \/ \E n \in 0..MaxChunks, ok \in BOOLEAN : SplitText(n, ok)
    \/ \E i \in 1..MaxChunks : EmbedStart(i)
    \/ \E i \in 1..MaxChunks, r \in {Null} \cup Dims : EmbedDone(i, r)
    \/ EmbedAllSettled
    \/ \E r \in {"ok", "untouched", "dropped"} : RecreateDone(r)
    \/ \E r \in {"ok", "failed", "lost"} : UpsertDone(r)
    \/ \E ok \in BOOLEAN : Listen(ok)
    \/ Sigterm
    \/ ServerClosed
    \/ \E question \in Questions, k \in 0..MaxK, ok \in BOOLEAN :
          SemanticSearch(question, k, ok)

StartupSpec == StartupInit /\ [][StartupNext]_vars

\* An awaited call settles and the continuation runs; nothing obliges a client
\* to search or an operator to send SIGTERM.
StartupFairSpec ==
    /\ StartupSpec
    /\ WF_vars(ParseEnv)
    /\ WF_vars(\E ok \in BOOLEAN : LoadSchema(ok))
    /\ WF_vars(\E n \in 0..MaxChunks, ok \in BOOLEAN : SplitText(n, ok))
    /\ WF_vars(\E i \in 1..MaxChunks : EmbedStart(i))
    /\ WF_vars(\E i \in 1..MaxChunks, r \in {Null} \cup Dims : EmbedDone(i, r))
    /\ WF_vars(EmbedAllSettled)
    /\ WF_vars(\E r \in {"ok", "untouched", "dropped"} : RecreateDone(r))
    /\ WF_vars(\E r \in {"ok", "failed", "lost"} : UpsertDone(r))
    /\ WF_vars(\E ok \in BOOLEAN : Listen(ok))


(***************************************************************************)
(* 2  The tools of buildMcpServer: search-schema and query-graphql.  A     *)
(* handler runs to its next await in one step.                             *)
(***************************************************************************)
\* The token that stands for "\n\n---\n\n".
Delimiter == 99

\* A join that puts nothing between the texts.
RECURSIVE Join_NoDelimiter(_)
Join_NoDelimiter(texts) ==
    IF texts = <<>> THEN <<>> ELSE Head(texts) \o Join_NoDelimiter(Tail(texts))

\* searchResults.join("\n\n---\n\n")
RECURSIVE Join(_)
Join(texts) ==
    IF texts = <<>> THEN <<>>
    ELSE IF Len(texts) = 1 THEN texts[1]
    ELSE texts[1] \o <<Delimiter>> \o Join(Tail(texts))

\* A query string: its definitions in order, each a query operation, a
\* mutation operation or text that is not GraphQL.
Definitions == {"query", "mutation", "garbage"}
Queries == UNION { [1..n -> Definitions] : n \in 1..2 }

\* A parser that accepts everything.
GraphqlParses_Anything(query) == TRUE

\* parse(query) throws on a string that is not a GraphQL document.
GraphqlParses(query) == \A i \in DOMAIN query : query[i] # "garbage"

\* parsedQuery.definitions.some(def => def.kind === "OperationDefinition" &&
\* def.operation === "mutation")
isMutation(query) == \E i \in DOMAIN query : query[i] = "mutation"

\* The variables argument: not given, '', or a JSON text or not.
Variables == {"absent", "", "{}", "null", "{"}

\* The text of an upstream answer.
ResponseTexts == {"not json", "null", "[]", "{data}", "{errors}", "{errors:[]}"}

\* data.errors && data.errors.length > 0: reading a property of null throws.
ErrorsCheck(text) ==
    IF text = "null" THEN "throws"
    ELSE IF text = "{errors}" THEN "errors"
    ELSE "none"

\* A gate that looks at the first definition only.
MutationGate_FirstOnly(query, allow) == query[1] = "mutation" /\ ~allow

\* isMutation && !env.ALLOW_MUTATIONS
MutationGate(query, allow) == isMutation(query) /\ ~allow

\* The fixed parts of the texts the handlers return.
NothingFound == "No relevant schema information found for your question."
SearchFailed == "Failed to search schema: "
InvalidVariables == "Invalid variables: Must be a valid JSON string. Error: "
InvalidQuery == "Invalid GraphQL query: "
NotAllowed == "Mutations are not allowed. Set ALLOW_MUTATIONS=true to enable them."
RequestFailed == "GraphQL request failed: "
ParseFailed == "Failed to parse GraphQL JSON response: "
ResponseHasErrors == "GraphQL query executed, but the response contains errors: "
FailedToExecute == "Failed to execute GraphQL query: "
Success == ""

\* The handlers' try blocks: the catch that a throw from each place reaches.
ThrowSites ==
    {"JSON.parse(variables)", "parse(query)", "fetch", "response.text",
     "JSON.parse(responseText)", "data.errors", "embeddings.create", "qdrant.search"}

\* An execution try that ends before the errors check.
CatchOf_ShortTry(site) ==
    CASE site = "JSON.parse(variables)" -> InvalidVariables
      [] site = "parse(query)" -> InvalidQuery
      [] site \in {"fetch", "response.text"} -> FailedToExecute
      [] site = "JSON.parse(responseText)" -> ParseFailed
      [] site \in {"embeddings.create", "qdrant.search"} -> SearchFailed
      [] OTHER -> "uncaught"

CatchOf(site) ==
    CASE site = "JSON.parse(variables)" -> InvalidVariables
      [] site = "parse(query)" -> InvalidQuery
      [] site \in {"fetch", "response.text", "data.errors"} -> FailedToExecute
      [] site = "JSON.parse(responseText)" -> ParseFailed
      [] site \in {"embeddings.create", "qdrant.search"} -> SearchFailed
      [] OTHER -> "uncaught"

\* The call ends with the handler returning a result ...
Return(call, isError, message, body, detail) ==
    [call EXCEPT !.pc = "done",
                 !.result = [isError |-> isError, message |-> message,
                             body |-> body, detail |-> detail]]

\* ... or with a throw, which the catch block around it turns into an error
\* result; a throw outside every try leaves the handler.
Throw(call, site) ==
    IF CatchOf(site) = "uncaught"
    THEN [call EXCEPT !.pc = "done", !.thrown = TRUE]
    ELSE Return(call, TRUE, CatchOf(site), <<>>, site)

\* A handler that flags a response with GraphQL errors as an error.
ErrorsResult_Flagged(call, text) == Return(call, TRUE, ResponseHasErrors, <<>>, text)

\* The return for a response with GraphQL errors: "isError: true" is commented
\* out.
ErrorsResult(call, text) == Return(call, FALSE, ResponseHasErrors, <<>>, text)

\* A collection as the server can find it when the schema could not be loaded:
\* none, or points written by anyone, with or without payload text.
ToolCollections ==
    {NoCollection} \cup
    { [exists |-> TRUE, size |-> 1,
       points |-> { [id |-> i, vector |-> 1,
                     text |-> IF hasText[i] THEN PrevText(i) ELSE NoText] : i \in 0..(m - 1) }]
      : hasText \in [0..(MaxPrevPoints - 1) -> BOOLEAN], m \in 0..MaxPrevPoints }

\* A stream session with its timer armed and a legacy session, both open.
OpenSessions ==
    /\ streamableTransports = Put(EmptyRegistry, 1, 1)
    /\ sseTransports = Put(EmptyRegistry, 2, 2)
    /\ T = << SetTimeout([NewTransport("stream", Undefined) EXCEPT
                              !.pc = "handle", !.sessionId = 1, !.server = 1,
                              !.started = TRUE]),
              [NewTransport("sse", 2) EXCEPT
                              !.pc = "done", !.server = 2, !.started = TRUE] >>
    /\ escaped = FALSE
    /\ ev = NoEv

\* The server is listening after a startup whose schema load failed, two
\* sessions are open, and no tool has been called yet.
ToolInit ==
    /\ apiKey = FALSE
    /\ OpenSessions
    /\ process = "running"
    /\ serverInstance = "listening"
    /\ rpc = "settled"
    /\ outcome = "load-failed"
    /\ vectors = <<>>
    /\ collection \in ToolCollections
    /\ before = collection
    /\ runs = <<>>
    /\ sr = NoSr
    /\ processEnv = ConsumedEnv
    /\ \E raw \in RawEnvs : EnvSchema(raw).ok /\ env = EnvSchema(raw).value
    /\ tc = NoTc

Serving == process = "running" /\ serverInstance \in {"listening", "closing"}

\* search-schema is called: semanticSearch asks for the question's embedding.
SearchSchema(question, k) ==
    /\ Serving
    /\ tc.pc \in {"idle", "done"}
    /\ tc' = [NoTc EXCEPT !.tool = "search-schema", !.pc = "embed",
                          !.question = question, !.k = k, !.embeds = 1]
    /\ UNCHANGED <<processEnv, env, ragVars, muxVars>>

\* The embedding arrives and qdrant.search is called, or the request fails.
QuestionEmbedded(ok) ==
    /\ Serving
    /\ tc.tool = "search-schema"
    /\ tc.pc = "embed"
    /\ tc' = IF ok THEN [tc EXCEPT !.pc = "search", !.searches = @ + 1]
             ELSE Throw(tc, "embeddings.create")
    /\ UNCHANGED <<processEnv, env, ragVars, muxVars>>

\* A handler that counts a search as activity of the sessions and arms
\* their timers anew.
SearchSettled_TouchesSessions(ok) ==
    /\ Serving
    /\ tc.tool = "search-schema"
    /\ tc.pc = "search"
    /\ tc' = IF ok /\ collection.exists
             THEN LET searchResults ==
                          HitTexts(QdrantSearch(collection.points, tc.question, tc.k))
                  IN  IF Len(searchResults) = 0
                      THEN Return(tc, FALSE, NothingFound, <<>>, "")
                      ELSE Return(tc, FALSE, Success, Join(searchResults), "")
             ELSE Throw(tc, "qdrant.search")
    /\ T' = [t \in DOMAIN T |-> IF T[t].handle = "armed" THEN SetTimeout(T[t]) ELSE T[t]]
    /\ UNCHANGED <<processEnv, env, ragVars, apiKey, streamableTransports, sseTransports,
                   escaped, ev>>

\* qdrant.search returns its hits or fails (it fails when there is no
\* collection); the handler maps the hits to its result.
SearchSettled(ok) ==
    /\ Serving
    /\ tc.tool = "search-schema"
    /\ tc.pc = "search"
    /\ tc' = IF ok /\ collection.exists
             THEN LET searchResults ==
                          HitTexts(QdrantSearch(collection.points, tc.question, tc.k))
                  IN  IF Len(searchResults) = 0
                      THEN Return(tc, FALSE, NothingFound, <<>>, "")
                      ELSE Return(tc, FALSE, Success, Join(searchResults), "")
             ELSE Throw(tc, "qdrant.search")
    /\ UNCHANGED <<processEnv, env, ragVars, muxVars>>

\* A handler that looks at the document before it looks at the variables.
QueryGraphql_QueryFirst(query, variables) ==
    /\ Serving
    /\ tc.pc \in {"idle", "done"}
    /\ LET call == [NoTc EXCEPT !.tool = "query-graphql", !.query = query,
                                !.variables = variables]
       IN  tc' = IF ~GraphqlParses(query)
                 THEN Throw(call, "parse(query)")
                 ELSE IF MutationGate(query, env.ALLOW_MUTATIONS)
                 THEN Return(call, TRUE, NotAllowed, <<>>, "")
                 ELSE IF variables \notin {"absent", ""} /\ ~JsonValid(variables)
                 THEN Throw(call, "JSON.parse(variables)")
                 ELSE [call EXCEPT !.pc = "fetch", !.fetches = 1]
    /\ UNCHANGED <<processEnv, env, ragVars, muxVars>>

\* query-graphql is called: the handler up to "await fetch(...)".
QueryGraphql(query, variables) ==
    /\ Serving
    /\ tc.pc \in {"idle", "done"}
    /\ LET call == [NoTc EXCEPT !.tool = "query-graphql", !.query = query,
                                !.variables = variables]
       IN  tc' = IF variables \notin {"absent", ""} /\ ~JsonValid(variables)
                 THEN Throw(call, "JSON.parse(variables)")
                 ELSE IF ~GraphqlParses(query)
                 THEN Throw(call, "parse(query)")
                 ELSE IF MutationGate(query, env.ALLOW_MUTATIONS)
                 THEN Return(call, TRUE, NotAllowed, <<>>, "")
                 ELSE [call EXCEPT !.pc = "fetch", !.fetches = 1]
    /\ UNCHANGED <<processEnv, env, ragVars, muxVars>>

\* fetch resolves with a response, whatever its status, or rejects because the
\* upstream was not reached; then "await response.text()".
FetchSettled(r) ==
    /\ Serving
    /\ tc.tool = "query-graphql"
    /\ tc.pc = "fetch"
    /\ tc' = IF r = "unreachable" THEN Throw(tc, "fetch")
             ELSE [tc EXCEPT !.pc = "text", !.responded = TRUE, !.status = r]
    /\ UNCHANGED <<processEnv, env, ragVars, muxVars>>

\* A handler that parses and inspects the body before it looks at the status.
TextSettled_BodyFirst(text, ok) ==
    /\ Serving
    /\ tc.tool = "query-graphql"
    /\ tc.pc = "text"
    /\ tc' = IF ~ok THEN Throw(tc, "response.text")
             ELSE IF ~JsonValid(text) THEN Throw(tc, "JSON.parse(responseText)")
             ELSE IF ErrorsCheck(text) = "throws" THEN Throw(tc, "data.errors")
             ELSE IF ErrorsCheck(text) = "errors" THEN ErrorsResult(tc, text)
             ELSE IF tc.status # "ok" THEN Return(tc, TRUE, RequestFailed, <<>>, text)
             ELSE Return(tc, FALSE, Success, <<>>, text)
    /\ UNCHANGED <<processEnv, env, ragVars, muxVars>>

\* The body has been read, or reading it failed; the rest of the handler.
TextSettled(text, ok) ==
    /\ Serving
    /\ tc.tool = "query-graphql"
    /\ tc.pc = "text"
    /\ tc' = IF ~ok THEN Throw(tc, "response.text")
             ELSE IF tc.status # "ok" THEN Return(tc, TRUE, RequestFailed, <<>>, text)
             ELSE IF ~JsonValid(text) THEN Throw(tc, "JSON.parse(responseText)")
             ELSE IF ErrorsCheck(text) = "throws" THEN Throw(tc, "data.errors")
             ELSE IF ErrorsCheck(text) = "errors" THEN ErrorsResult(tc, text)
             ELSE Return(tc, FALSE, Success, <<>>, text)
    /\ UNCHANGED <<processEnv, env, ragVars, muxVars>>

ToolNext ==
    \/ \E question \in Questions, k \in 0..MaxK : SearchSchema(question, k)
    \/ \E ok \in BOOLEAN : QuestionEmbedded(ok)
    \/ \E ok \in BOOLEAN : SearchSettled(ok)
    \/ \E query \in Queries, variables \in Variables : QueryGraphql(query, variables)
    \/ \E r \in {"ok", "fail", "unreachable"} : FetchSettled(r)
    \/ \E text \in ResponseTexts, ok \in BOOLEAN : TextSettled(text, ok)
    \/ Tick
    \/ \E t \in 1..MaxTransports : IdleTimeout(t)

\* Tool calls against a listening server with sessions open, while time passes
\* and the idle timer fires.
ToolSpec == ToolInit /\ [][ToolNext]_vars

(***************************************************************************)
(* Vocabulary of the claims.                                               *)
(***************************************************************************)
Transports == DOMAIN T

StreamTransports == {t \in Transports : T[t].kind = "stream"}

SseTransports == {t \in Transports : T[t].kind = "sse"}

\* The step handled a /mcp request that passed the middleware.
McpHandledNow == ev.op = "mcp" /\ ev.auth = "next"

\* The step handled a POST /messages request that passed the middleware.
MessagesHandledNow == ev.op = "messages" /\ ev.auth = "next"

\* A stream session is over once its transport signalled close or its idle
\* callback ran.
Over(t) == T[t].closed \/ T[t].handle = "fired"

\* No transport object changed which server it is connected to.
ServersUnchanged == \A t \in Transports : T'[t].server = T[t].server

(***************************************************************************)
(* C1.  On /mcp a session is created only by a request with no session id *)
(* and an initialization body; every other request whose session id is not *)
(* registered is answered 400, creates no transport and no server, and     *)
(* leaves both registries unchanged.                                       *)
(* Stated on the step that handles the request; refuted by a session id    *)
(* that names a property of Object.prototype.                              *)
(***************************************************************************)
C1_Step ==
    /\ (Len(T') > Len(T) /\ ev'.op = "mcp")
          => (ev'.hdr = NoId /\ ev'.body = "init" /\ ev'.branch = "create")
    /\ (/\ ev'.op = "mcp"
        /\ ev'.auth = "next"
        /\ ev'.hdr \notin DOMAIN streamableTransports
        /\ ~(ev'.hdr = NoId /\ ev'.body = "init"))
          => /\ ev'.branch = "400"
             /\ T' = T
             /\ streamableTransports' = streamableTransports
             /\ sseTransports' = sseTransports

C1_UnknownIdRejected == [][C1_Step]_vars

\* C1 restricted to session ids that name no property of Object.prototype:
\* this much the handler does guarantee.
C1_OrdinaryIdRejected == [][ev'.hdr # ProtoKey => C1_Step]_vars

(***************************************************************************)
(* C2.  A /mcp request carrying a registered session id is delivered to    *)
(* the transport registered under that id; the step constructs no server,  *)
(* creates no transport and leaves both registries as they were.           *)
(***************************************************************************)
C2_Step ==
    (/\ ev'.op = "mcp"
     /\ ev'.auth = "next"
     /\ ev'.hdr \in DOMAIN streamableTransports)
       => /\ ev'.branch = "reuse"
          /\ ev'.to = streamableTransports[ev'.hdr]
          /\ Len(T') = Len(T)
          /\ ServersUnchanged
          /\ streamableTransports' = streamableTransports
          /\ sseTransports' = sseTransports

C3_AcceptedUntilClosed ==
    \A t \in StreamTransports :
        T[t].sessionId # Undefined =>
            /\ ~Over(t) => /\ T[t].sessionId \in DOMAIN streamableTransports
                           /\ streamableTransports[T[t].sessionId] = t
            /\ Over(t) => T[t].sessionId \notin DOMAIN streamableTransports
            /\ (McpHandledNow /\ ev.hdr = T[t].sessionId) =>
                   IF Over(t) THEN ev.branch = "400" /\ ev.to = 0
                   ELSE ev.branch = "reuse" /\ ev.to = t

\* A request carrying the id of a session whose transport signalled close was
\* answered 400.
C3_Witness ==
    \E t \in StreamTransports :
        /\ T[t].sessionId # Undefined
        /\ T[t].closed
        /\ T[t].handle = "cleared"
        /\ McpHandledNow
        /\ ev.hdr = T[t].sessionId
        /\ ev.branch = "400"

(***************************************************************************)
(* C4.  In every state each registered id resolves to one transport of the *)
(* registry's kind whose own session id is the key, no transport is        *)
(* registered under two keys or in both registries, and while an id stays  *)
(* registered neither its transport nor the server connected to that       *)
(* transport is replaced by another.                                       *)
(***************************************************************************)
C4_Registry(reg, kind) ==
    /\ \A id \in DOMAIN reg :
          /\ reg[id] \in Transports
          /\ T[reg[id]].kind = kind
          /\ T[reg[id]].sessionId = id
    /\ \A i, j \in DOMAIN reg : reg[i] = reg[j] => i = j

C4_Inv == C4_Registry(streamableTransports, "stream") /\ C4_Registry(sseTransports, "sse")

C4_Stable(reg, regNext) ==
    \A id \in DOMAIN reg :
        id \in DOMAIN regNext =>
            /\ regNext[id] = reg[id]
            /\ T[reg[id]].server # 0 => T'[reg[id]].server = T[reg[id]].server

C4_Step ==
    /\ C4_Stable(streamableTransports, streamableTransports')
    /\ C4_Stable(sseTransports, sseTransports')

C4_OneTransportPerId == []C4_Inv /\ [][C4_Step]_vars

\* Both registries hold a session whose transport has its server connected.
C4_Witness ==
    /\ \E id \in DOMAIN streamableTransports : T[streamableTransports[id]].server # 0
    /\ \E id \in DOMAIN sseTransports : T[sseTransports[id]].started

(***************************************************************************)
(* C5.  Two initialization handlers that overlap each end with their own   *)
(* session id, transport, server and timer; the step that registers one    *)
(* session leaves every other registry entry as it was.                    *)
(***************************************************************************)
C5_Inv ==
    \A t1, t2 \in StreamTransports :
        (t1 # t2 /\ T[t1].pc = "handle" /\ T[t2].pc = "handle") =>
            /\ T[t1].sessionId # Undefined
            /\ T[t2].sessionId # Undefined
            /\ T[t1].sessionId # T[t2].sessionId
            /\ T[t1].server # 0
            /\ T[t1].server # T[t2].server
            /\ T[t1].handle # "null"
            /\ T[t2].handle # "null"
            /\ (~Over(t1) /\ ~Over(t2)) =>
                   /\ streamableTransports[T[t1].sessionId] = t1
                   /\ streamableTransports[T[t2].sessionId] = t2

C5_Step ==
    \A t \in StreamTransports :
        (T[t].pc # "handle" /\ T'[t].pc = "handle") =>
            /\ \A id \in DOMAIN streamableTransports :
                  /\ id \in DOMAIN streamableTransports'
                  /\ streamableTransports'[id] = streamableTransports[id]
            /\ sseTransports' = sseTransports

C5_ConcurrentInits == []C5_Inv /\ [][C5_Step]_vars

\* The second handler's session was initialized while the first handler was
\* still suspended, and both sessions ended up registered.
C5_Witness ==
    \E t1, t2 \in StreamTransports :
        /\ t1 < t2
        /\ T[t1].pc = "handle"
        /\ T[t2].pc = "handle"
        /\ T[t2].raced
        /\ T[t1].sessionId \in DOMAIN streamableTransports
        /\ T[t2].sessionId \in DOMAIN streamableTransports


(***************************************************************************)
(* C6.  The idle deadline is reset by traffic: the idle callback removes   *)
(* only a session that saw no request during the whole idle window before  *)
(* it ran.                                                                 *)
(* Refuted: the timer is armed once, when the session is initialized, and  *)
(* no request re-arms it.                                                  *)
(***************************************************************************)
C6_Step ==
    \A t \in StreamTransports :
        (T[t].handle = "armed" /\ T'[t].handle = "fired") => T[t].idle >= IdleWindow

C6_EvictsOnlyIdleSessions == [][C6_Step]_vars

(***************************************************************************)
(* C7.  When the idle callback of a stream session runs, the session id    *)
(* leaves the registry and transport.close() is called once; an exception  *)
(* thrown by close() does not leave the callback; afterwards every /mcp    *)
(* request carrying the id is answered 400.                                *)
(***************************************************************************)
C7_Inv ==
    /\ ~escaped
    /\ \A t \in StreamTransports :
          T[t].handle = "fired" =>
              /\ T[t].sessionId \notin DOMAIN streamableTransports
              /\ T[t].closeCalls = 1
              /\ (McpHandledNow /\ ev.hdr = T[t].sessionId) => ev.branch = "400"

C7_Step ==
    \A t \in StreamTransports :
        (T[t].handle = "armed" /\ T'[t].handle = "fired") =>
            /\ T[t].sessionId \in DOMAIN streamableTransports
            /\ T[t].sessionId \notin DOMAIN streamableTransports'
            /\ T'[t].closeCalls = T[t].closeCalls + 1

C8_Inv ==
    \A t \in StreamTransports :
        /\ T[t].handle = "armed" =>
              /\ T[t].sessionId \in DOMAIN streamableTransports
              /\ streamableTransports[T[t].sessionId] = t
        /\ T[t].closed => T[t].handle \in {"cleared", "fired"}

C8_Step ==
    \A t \in StreamTransports :
        /\ (T[t].handle = "null" /\ T'[t].handle = "armed") =>
              /\ T'[t].sessionId \in DOMAIN streamableTransports'
              /\ streamableTransports'[T'[t].sessionId] = t
        /\ (T[t].handle # "fired" /\ T'[t].handle = "fired") =>
              /\ T[t].handle = "armed"
              /\ T[t].sessionId \in DOMAIN streamableTransports
              /\ ~T[t].closed

C8_TimerOnlyForRegistered == []C8_Inv /\ [][C8_Step]_vars

\* A transport closed while its timer was pending, and the timer was cancelled.
C8_Witness ==
    \E t \in StreamTransports :
        /\ T[t].closed
        /\ T[t].handle = "cleared"
        /\ T[t].sessionId \notin DOMAIN streamableTransports

(***************************************************************************)
(* C9.  Every registered session of either kind is eventually removed from *)
(* its registry, even if its connection never closes: no session stays     *)
(* registered forever ([]<>~P, which is P ~> ~P).                          *)
(* Refuted by a legacy SSE session, which has no timer.  What holds: every *)
(* registered stream session is eventually removed, and a legacy session   *)
(* leaves its registry only in the step in which its connection closes.    *)
(***************************************************************************)
StreamRegistered(t) ==
    /\ t \in StreamTransports
    /\ T[t].sessionId \in DOMAIN streamableTransports

SseRegistered(t) ==
    /\ t \in SseTransports
    /\ T[t].sessionId \in DOMAIN sseTransports

C9_EverySessionEvicted ==
    \A t \in 1..MaxTransports :
        /\ []<>(~StreamRegistered(t))
        /\ []<>(~SseRegistered(t))

C9_SseStep ==
    \A t \in SseTransports :
        (SseRegistered(t) /\ T[t].sessionId \notin DOMAIN sseTransports') =>
            (~T[t].closed /\ T'[t].closed)

C9_StreamEvicted ==
    /\ \A t \in 1..MaxTransports : []<>(~StreamRegistered(t))
    /\ [][C9_SseStep]_vars

\* A stream session was removed by its idle callback and never by a close.
C9_Witness ==
    \E t \in StreamTransports :
        /\ T[t].handle = "fired"
        /\ T[t].sessionId \notin DOMAIN streamableTransports

(***************************************************************************)
(* C10.  GET /sse gives the transport its session id and registers it in   *)
(* the same step; a POST /messages whose sessionId is not registered in    *)
(* the legacy registry is answered 400 and reaches no transport.           *)
(* Refuted by a sessionId that names a property of Object.prototype.       *)
(***************************************************************************)
C10_UnknownSseIdRejected ==
    /\ ev.op = "sse" =>
          /\ ev.to \in SseTransports
          /\ T[ev.to].sessionId # Undefined
          /\ T[ev.to].sessionId \in DOMAIN sseTransports
          /\ sseTransports[T[ev.to].sessionId] = ev.to
    /\ (MessagesHandledNow /\ ev.hdr \notin DOMAIN sseTransports) =>
          /\ ev.branch = "400"
          /\ ev.to = 0

\* C10 restricted to session ids that name no property of Object.prototype:
\* this much the handler does guarantee.
C10_OrdinarySseIdRejected == ev.hdr # ProtoKey => C10_UnknownSseIdRejected

(***************************************************************************)
(* C11  With an API key configured, a request to /mcp or /messages that    *)
(* carries no X-API-Key is answered 401 and one that carries a different   *)
(* key is answered 403; both are answered by the middleware, before the    *)
(* handler looks the session up: no registry entry and no transport is     *)
(* created or changed and nothing is delivered to a transport.  With no    *)
(* key configured every request passes the check, whatever key it carries. *)
(***************************************************************************)
C11_Step ==
    ev'.op \in {"mcp", "messages"} =>
        /\ ev'.auth = IF ~apiKey THEN "next"
                      ELSE IF ev'.key = "absent" THEN "401"
                      ELSE IF ev'.key = "bad" THEN "403"
                      ELSE "next"
        /\ ev'.auth # "next" =>
              /\ ev'.branch = "auth"
              /\ ev'.to = 0
              /\ T' = T
              /\ streamableTransports' = streamableTransports
              /\ sseTransports' = sseTransports

C11_AuthBeforeLookup == [][C11_Step]_vars

\* A request with a wrong or missing key is turned away while a session is
\* registered that it could have reached.
C11_Witness ==
    /\ apiKey
    /\ ev.op \in {"mcp", "messages"}
    /\ ev.auth \in {"401", "403"}
    /\ streamableTransports # EmptyRegistry
    /\ sseTransports # EmptyRegistry

(***************************************************************************)
(* C12  As stated: with an API key configured, no request that lacks the   *)
(* matching key creates a transport or registers a session in either       *)
(* registry, the request that opens the legacy push stream included.       *)
(***************************************************************************)
C12_Unkeyed == apiKey /\ ev'.op # "none" /\ ev'.key # "good"

C12_OriginalStep ==
    C12_Unkeyed =>
        /\ T' = T
        /\ streamableTransports' = streamableTransports
        /\ sseTransports' = sseTransports

C12_NoSessionWithoutKey == [][C12_OriginalStep]_vars

(***************************************************************************)
(* C12 as the code has it: with an API key configured, a request without   *)
(* the matching key never creates a streamable transport, never changes    *)
(* the streamable registry and is never delivered to a transport; the only *)
(* thing it can do is open a legacy push stream with GET /sse, which       *)
(* creates a legacy transport and registers it in the legacy registry.     *)
(***************************************************************************)
C12_Step ==
    C12_Unkeyed =>
        /\ streamableTransports' = streamableTransports
        /\ \A t \in DOMAIN T : T'[t] = T[t]
        /\ IF ev'.op = "sse"
           THEN /\ Len(T') = Len(T) + 1
                /\ T'[Len(T')].kind = "sse"
                /\ ev'.to = Len(T')
           ELSE /\ T' = T
                /\ sseTransports' = sseTransports
                /\ ev'.to = 0

C12_OnlyLegacyOpenUnguarded == [][C12_Step]_vars

\* A legacy session opened without the key is registered while a key is
\* configured.
C12_Witness ==
    /\ apiKey
    /\ ev.op = "sse"
    /\ ev.key \in {"absent", "bad"}
    /\ ev.to \in DOMAIN T
    /\ Lookup(sseTransports, T[ev.to].sessionId) = ev.to

(***************************************************************************)
(* Vocabulary of the reindex claims.                                       *)
(***************************************************************************)
\* Chunks whose embedding call failed, and chunks that were embedded.
FailedChunks == {i \in DOMAIN vectors : vectors[i] = Null}
EmbeddedChunks == {i \in DOMAIN vectors : vectors[i] \in Dims}

\* The reindex ended without completing.
ReindexFailed ==
    outcome \in {"load-failed", "split-failed", "no-chunks", "no-vectors", "qdrant-failed"}

(***************************************************************************)
(* C13  During a reindex at most 3 embedding calls are in flight, whatever *)
(* the number of chunks and however the calls complete or fail.            *)
(***************************************************************************)
C13_AtMostThreeInFlight == InFlight(vectors) <= 3

\* The limit binds: three calls are in flight and a chunk is waiting.
C13_Witness ==
    /\ InFlight(vectors) = 3
    /\ \E i \in DOMAIN vectors : vectors[i] = Queued
    /\ \E i \in DOMAIN vectors : vectors[i] = Null

(***************************************************************************)
(* C14  A chunk's embedding failure is isolated.  Once the batch has been  *)
(* awaited every chunk has been tried, whichever chunks failed; and when   *)
(* some but not all of the N chunks failed (the set F) and the reindex     *)
(* completes, the collection holds exactly N - |F| points, one for each    *)
(* chunk outside F.                                                        *)
(***************************************************************************)
C14_FailureIsolated ==
    /\ rpc \in {"recreate", "upsert"} \/ outcome \in {"no-vectors", "qdrant-failed", "done"}
          => DOMAIN vectors = FailedChunks \cup EmbeddedChunks
    /\ outcome = "done"
          => /\ Cardinality(collection.points) = Len(vectors) - Cardinality(FailedChunks)
             /\ {p.text : p \in collection.points} = DOMAIN vectors \ FailedChunks

\* A completed reindex in which a chunk failed and later chunks survived.
C14_Witness ==
    /\ outcome = "done"
    /\ Len(vectors) = MaxChunks
    /\ vectors[2] = Null
    /\ Cardinality(FailedChunks) = 2
    /\ Cardinality(collection.points) = MaxChunks - 2

(***************************************************************************)
(* C15  After a successful reindex that embedded M chunks the point ids    *)
(* are exactly 0..M-1, each once, in the split order of the surviving      *)
(* chunks, and each point carries the text and the vector of its chunk.    *)
(* In every state no two points of the collection have the same id.        *)
(***************************************************************************)
C15_Ordinals ==
    /\ \A p, q \in collection.points : p.id = q.id => p = q
    /\ outcome = "done" =>
          /\ {p.id : p \in collection.points} = 0..(Cardinality(EmbeddedChunks) - 1)
          /\ \A p \in collection.points :
                /\ p.text \in EmbeddedChunks
                /\ p.vector = vectors[p.text]
                /\ p.id = Cardinality({c \in EmbeddedChunks : c < p.text})

\* A completed reindex whose first chunk failed, over a previous collection
\* with more points than the new one.
C15_Witness ==
    /\ outcome = "done"
    /\ vectors[1] = Null
    /\ Cardinality(EmbeddedChunks) >= 2
    /\ Cardinality(before.points) > 0

(***************************************************************************)
(* C16  When the split yields no chunk, or every embedding fails, the      *)
(* reindex ends without calling recreateCollection or upsert: the          *)
(* collection is what it was before the attempt.                           *)
(***************************************************************************)
C16_AbortStep ==
    outcome' \in {"no-chunks", "no-vectors"} /\ outcome = "none" =>
        /\ rpc \in {"split", "embed"}
        /\ rpc' = "settled"
        /\ collection' = collection
        /\ collection = before

C16_AbortLeavesCollection ==
    /\ [](outcome \in {"no-chunks", "no-vectors"} => collection = before)
    /\ [][C16_AbortStep]_vars

\* Every embedding failed, with points in the previous collection.
C16_Witness ==
    /\ outcome = "no-vectors"
    /\ Len(vectors) >= 2
    /\ before.points # {}

(***************************************************************************)
(* C17  As stated: whenever a reindex fails, at whatever step, the         *)
(* collection afterwards equals the collection before the attempt.         *)
(***************************************************************************)
C17_FailureKeepsCollection == ReindexFailed => collection = before

(***************************************************************************)
(* C17 as the code has it: a reindex that fails before it calls            *)
(* recreateCollection (schema load, split, no chunk, no vector) leaves the *)
(* collection as it was.  One that fails in recreateCollection or upsert   *)
(* leaves it as it was, or deleted, or recreated and empty, or recreated   *)
(* and fully written.                                                      *)
(***************************************************************************)
C17_FailureBeforeRecreateKeeps ==
    /\ outcome \in {"load-failed", "split-failed", "no-chunks", "no-vectors"}
          => collection = before
    /\ outcome = "qdrant-failed" =>
          LET size == validVectors(vectors)[1].vec
              empty == [exists |-> TRUE, size |-> size, points |-> {}]
          IN  collection \in {before, NoCollection, empty,
                              Upsert(empty, Points(validVectors(vectors)))}

\* The upsert failed after the collection was recreated: the previous points
\* are gone.
C17_Witness ==
    /\ outcome = "qdrant-failed"
    /\ before.points # {}
    /\ collection.exists
    /\ collection.points = {}

(***************************************************************************)
(* C18  The listener starts only after the startup reindex has completed   *)
(* or failed; a reindex failure does not end the process (no step of the   *)
(* reindex does) and leaves app.listen as the next thing to happen.        *)
(***************************************************************************)
C18_ExitStep ==
    process' # process => UNCHANGED <<rpc, outcome, vectors, collection>>

C18_ListenAfterReindex ==
    /\ [](serverInstance # "null" => rpc = "settled")
    /\ [][C18_ExitStep]_vars
    /\ [](ReindexFailed /\ process = "running" /\ serverInstance = "null"
             => ENABLED Listen(TRUE))

\* The server listens after a reindex that failed.
C18_Witness ==
    /\ process = "running"
    /\ serverInstance = "listening"
    /\ outcome \in {"load-failed", "split-failed", "qdrant-failed"}

(***************************************************************************)
(* C19  As stated: a search can be served while a reindex is in flight.    *)
(***************************************************************************)
C19_SearchDuringReindex == <>(sr.op = "search" /\ rpc # "settled")

(***************************************************************************)
(* C19 as the code has it: the only reindex is the one awaited before      *)
(* app.listen, so no search is served while a reindex is in flight and the *)
(* collection never changes once the server listens.  A search sees what   *)
(* the settled reindex left: nothing, if the upsert failed after the       *)
(* collection was recreated.                                               *)
(***************************************************************************)
C19_NoSearchDuringReindex ==
    /\ [](sr.op = "search" => rpc = "settled" /\ serverInstance # "null")
    /\ [][serverInstance # "null" => collection' = collection]_vars

\* A search finds the collection empty after a reindex that failed between
\* recreation and upsert.
C19_Witness ==
    /\ sr.op = "search"
    /\ sr.status = "ok"
    /\ sr.k > 0
    /\ sr.hits = <<>>
    /\ outcome = "qdrant-failed"
    /\ before.points # {}

(***************************************************************************)
(* C20  Whatever k and whatever the collection holds, a semantic search    *)
(* returns at most k results and at most as many as there are points.      *)
(***************************************************************************)
C20_AtMostK ==
    sr.op = "search" =>
        /\ Len(sr.hits) <= sr.k
        /\ Len(sr.hits) <= Cardinality(collection.points)

\* A search cut off by k, over a collection with more points than k.
C20_Witness ==
    /\ sr.op = "search"
    /\ sr.status = "ok"
    /\ sr.k >= 1
    /\ Len(sr.hits) = sr.k
    /\ Cardinality(collection.points) > sr.k

(***************************************************************************)
(* C28  On SIGTERM the server stops accepting connections and closes its   *)
(* listening socket before the process exits: the process never exits      *)
(* while the socket is open.                                               *)
(***************************************************************************)
C28_ExitStep == process' # process => serverInstance # "listening"

C28_CloseBeforeExit ==
    /\ [](process # "running" => serverInstance \in {"null", "error", "closed"})
    /\ [][C28_ExitStep]_vars

\* The process has exited on a signal received while it was listening.
C28_Witness ==
    /\ process = "exit0"
    /\ serverInstance = "closed"

(***************************************************************************)
(* C29  When the settings cannot be parsed (HEADERS is not valid JSON,     *)
(* ALLOW_MUTATIONS is neither "true" nor "false", ENDPOINT is not a URL)   *)
(* the process exits with a failure code before the reindex begins and     *)
(* before the listener is opened: nothing is loaded, embedded, written or  *)
(* served.                                                                 *)
(***************************************************************************)
C29_Unparseable(raw) ==
    \/ raw.HEADERS = "{"
    \/ raw.ALLOW_MUTATIONS \notin {"absent", "true", "false"}
    \/ raw.ENDPOINT = "not a url"

C29_Step ==
    C29_Unparseable(processEnv) =>
        /\ process = "running"
        /\ process' = "exit1"
        /\ UNCHANGED <<rpc, serverInstance, vectors, collection, sr, tc, muxVars>>

C29_ExitBeforeStartup ==
    /\ [](C29_Unparseable(processEnv) =>
             /\ rpc = "env"
             /\ serverInstance = "null"
             /\ vectors = <<>>
             /\ collection = before
             /\ sr = NoSr
             /\ tc = NoTc)
    /\ [][C29_Step]_vars

\* The process has exited on settings whose HEADERS is not JSON.
C29_Witness ==
    /\ process = "exit1"
    /\ rpc = "env"
    /\ outcome = "none"
    /\ processEnv.HEADERS = "{"

(***************************************************************************)
(* The server from its start: the settings are parsed, the startup reindex *)
(* settles, the port is bound, and then tool calls are handled, one step   *)
(* per awaited external call.                                              *)
(***************************************************************************)
LifeNext ==
    \/ ParseEnv
    \/ \E ok \in BOOLEAN : LoadSchema(ok)
    \/ \E n \in 0..MaxLifeChunks, ok \in BOOLEAN : SplitText(n, ok)
    \/ \E i \in 1..MaxLifeChunks : EmbedStart(i)
    \/ \E i \in 1..MaxLifeChunks, r \in {Null} \cup Dims : EmbedDone(i, r)
    \/ EmbedAllSettled
    \/ \E r \in {"ok", "untouched", "dropped"} : RecreateDone(r)
    \/ \E r \in {"ok", "failed", "lost"} : UpsertDone(r)
    \/ \E ok \in BOOLEAN : Listen(ok)
    \/ Sigterm
    \/ ServerClosed
    \/ \E question \in Questions, k \in 0..MaxK : SearchSchema(question, k)
    \/ \E ok \in BOOLEAN : QuestionEmbedded(ok)
    \/ \E ok \in BOOLEAN : SearchSettled(ok)
    \/ \E query \in Queries, variables \in Variables : QueryGraphql(query, variables)
    \/ \E r \in {"ok", "fail", "unreachable"} : FetchSettled(r)
    \/ \E text \in ResponseTexts, ok \in BOOLEAN : TextSettled(text, ok)

\* The first start, against a Qdrant that holds no collection yet.
LifeInit == StartupInit /\ collection = NoCollection

LifeSpec == LifeInit /\ [][LifeNext]_vars

(***************************************************************************)
(* The server started, ended and started once more: two startup reindexes  *)
(* against the same Qdrant.                                                *)
(***************************************************************************)
RerunNext ==
    \/ ParseEnv
    \/ \E ok \in BOOLEAN : LoadSchema(ok)
    \/ \E n \in 0..MaxLifeChunks, ok \in BOOLEAN : SplitText(n, ok)
    \/ \E i \in 1..MaxLifeChunks : EmbedStart(i)
    \/ \E i \in 1..MaxLifeChunks, r \in {Null} \cup Dims : EmbedDone(i, r)
    \/ EmbedAllSettled
    \/ \E r \in {"ok", "untouched", "dropped"} : RecreateDone(r)
    \/ \E r \in {"ok", "failed", "lost"} : UpsertDone(r)
    \/ \E ok \in BOOLEAN : Listen(ok)
    \/ Sigterm
    \/ ServerClosed
    \/ \E e \in StartupEnvs : Restart(e)

RerunSpec == LifeInit /\ [][RerunNext]_vars

(***************************************************************************)
(* The server from its start to its end by SIGTERM, with clients opening   *)
(* and closing legacy push streams while it listens.  A listener that is   *)
(* closing accepts no new connection; the handlers of the connections it   *)
(* has go on.                                                              *)
(***************************************************************************)
ShutdownNext ==
    \/ ParseEnv
    \/ \E ok \in BOOLEAN : LoadSchema(ok)
    \/ \E n \in 0..MaxLifeChunks, ok \in BOOLEAN : SplitText(n, ok)
    \/ \E i \in 1..MaxLifeChunks : EmbedStart(i)
    \/ \E i \in 1..MaxLifeChunks, r \in {Null} \cup Dims : EmbedDone(i, r)
    \/ EmbedAllSettled
    \/ \E r \in {"ok", "untouched", "dropped"} : RecreateDone(r)
    \/ \E r \in {"ok", "failed", "lost"} : UpsertDone(r)
    \/ \E ok \in BOOLEAN : Listen(ok)
    \/ Sigterm
    \/ ServerClosed
    \/ process = "running" /\ serverInstance = "listening" /\ SseOpen("absent")
    \/ process = "running" /\ \E t \in 1..MaxTransports : SseBuilt(t)
    \/ process = "running" /\ \E t \in 1..MaxTransports : SseConnected(t)
    \/ process = "running" /\ \E t \in 1..MaxTransports : SseClose(t)

\* Awaited calls settle and callbacks that are due run; nothing obliges an
\* operator to send SIGTERM or a client to open or to end a stream.
ShutdownSpec ==
    /\ LifeInit
    /\ [][ShutdownNext]_vars
    /\ WF_vars(ParseEnv)
    /\ WF_vars(\E ok \in BOOLEAN : LoadSchema(ok))
    /\ WF_vars(\E n \in 0..MaxLifeChunks, ok \in BOOLEAN : SplitText(n, ok))
    /\ WF_vars(\E i \in 1..MaxLifeChunks : EmbedStart(i))
    /\ WF_vars(\E i \in 1..MaxLifeChunks, r \in {Null} \cup Dims : EmbedDone(i, r))
    /\ WF_vars(EmbedAllSettled)
    /\ WF_vars(\E r \in {"ok", "untouched", "dropped"} : RecreateDone(r))
    /\ WF_vars(\E r \in {"ok", "failed", "lost"} : UpsertDone(r))
    /\ WF_vars(\E ok \in BOOLEAN : Listen(ok))
    /\ WF_vars(ServerClosed)
    /\ WF_vars(process = "running" /\ \E t \in 1..MaxTransports : SseBuilt(t))
    /\ WF_vars(process = "running" /\ \E t \in 1..MaxTransports : SseConnected(t))

(***************************************************************************)
(* Vocabulary of the tool claims.                                          *)
(***************************************************************************)
QueryDone == tc.tool = "query-graphql" /\ tc.pc = "done"
SearchDone == tc.tool = "search-schema" /\ tc.pc = "done"

\* The pieces of a text between its delimiters.
RECURSIVE SplitText_Delimiter(_)
SplitText_Delimiter(text) ==
    IF \A i \in DOMAIN text : text[i] # Delimiter THEN <<text>>
    ELSE LET i == CHOOSE i \in DOMAIN text :
                      text[i] = Delimiter /\ \A j \in 1..(i - 1) : text[j] # Delimiter
         IN  <<SubSeq(text, 1, i - 1)>> \o SplitText_Delimiter(SubSeq(text, i + 1, Len(text)))

(***************************************************************************)
(* C21  A search-schema call whose search succeeded returns, without the   *)
(* error flag: the fixed "nothing found" text when there is no hit;        *)
(* otherwise the hits' texts in the order the index returned them, joined  *)
(* by the delimiter, a hit without payload text giving the empty string.   *)
(***************************************************************************)
C21_ResultOfHits ==
    SearchDone /\ ~tc.result.isError =>
        LET hits == QdrantSearch(collection.points, tc.question, tc.k)
        IN  /\ ~tc.thrown
            /\ IF hits = <<>>
               THEN /\ tc.result.message = NothingFound
                    /\ tc.result.body = <<>>
               ELSE /\ tc.result.message = Success
                    /\ SplitText_Delimiter(tc.result.body) =
                          [i \in DOMAIN hits |->
                              IF hits[i].text = NoText THEN <<>> ELSE <<hits[i].text>>]
                    /\ \A i, j \in DOMAIN hits : i < j =>
                          IF tc.question = "rising" THEN hits[i].id < hits[j].id
                          ELSE hits[i].id > hits[j].id

\* Two hits, nearest first by falling id, the first with text and the second
\* without.
C21_Witness ==
    /\ SearchDone
    /\ ~tc.result.isError
    /\ tc.question = "falling"
    /\ tc.result.body = <<PrevText(1), Delimiter>>

(***************************************************************************)
(* C22  No step of a search-schema call, whatever its outcome, changes the *)
(* collection, either registry, or a transport and its idle timer.         *)
(***************************************************************************)
C22_Step ==
    tc' # tc /\ tc'.tool = "search-schema" =>
        /\ collection' = collection
        /\ streamableTransports' = streamableTransports
        /\ sseTransports' = sseTransports
        /\ T' = T

C22_SearchChangesNothing == [][C22_Step]_vars

\* A search has been answered while a session's timer was running down.
C22_Witness ==
    /\ SearchDone
    /\ collection.points # {}
    /\ T[1].handle = "armed"
    /\ T[1].remaining < IdleWindow
    /\ streamableTransports # EmptyRegistry
    /\ sseTransports # EmptyRegistry

(***************************************************************************)
(* C23  As stated: with mutations disabled, a query-graphql call whose     *)
(* document contains a mutation operation returns isError with the "not    *)
(* allowed" text and sends nothing upstream; with mutations enabled the    *)
(* same call sends the document upstream.                                  *)
(***************************************************************************)
C23_HasMutation ==
    /\ tc.tool = "query-graphql"
    /\ \A i \in DOMAIN tc.query : tc.query[i] \in {"query", "mutation"}
    /\ \E i \in DOMAIN tc.query : tc.query[i] = "mutation"

C23_Gate ==
    IF env.ALLOW_MUTATIONS
    THEN tc.fetches = 1
    ELSE /\ tc.pc = "done"
         /\ tc.result.isError
         /\ tc.result.message = NotAllowed
         /\ tc.fetches = 0

C23_MutationGateAlways == C23_HasMutation => C23_Gate

(***************************************************************************)
(* C23 as the code has it: the same, for a call whose variables argument   *)
(* is absent, empty or valid JSON; a call with invalid variables is        *)
(* answered "Invalid variables" before the document is looked at.          *)
(***************************************************************************)
C23_MutationGate ==
    C23_HasMutation /\ tc.variables \in {"absent", "", "{}", "null"} => C23_Gate

\* A document with a query and a mutation is refused with mutations disabled.
C23_Witness ==
    /\ ~env.ALLOW_MUTATIONS
    /\ QueryDone
    /\ tc.query = <<"query", "mutation">>
    /\ tc.variables = "{}"
    /\ tc.result.message = NotAllowed

(***************************************************************************)
(* C24  A query-graphql call whose query is not valid GraphQL returns      *)
(* isError and makes no upstream request, whatever the variables and the   *)
(* mutation flag.                                                          *)
(***************************************************************************)
C24_InvalidQuery ==
    tc.tool = "query-graphql" /\ (\E i \in DOMAIN tc.query : tc.query[i] = "garbage") =>
        /\ tc.pc = "done"
        /\ tc.result.isError
        /\ tc.fetches = 0
        /\ ~tc.responded

\* An invalid query with valid variables and mutations enabled.
C24_Witness ==
    /\ QueryDone
    /\ env.ALLOW_MUTATIONS
    /\ tc.query = <<"mutation", "garbage">>
    /\ tc.variables = "{}"
    /\ tc.result.message = InvalidQuery

(***************************************************************************)
(* C25  As stated: every failing outcome of a tool call, the upstream      *)
(* GraphQL-level errors array included, carries a text and isError = true. *)
(***************************************************************************)
C25_Failing == tc.pc = "done" /\ tc.result.message \notin {Success, NothingFound}

C25_EveryFailureFlagged == C25_Failing => tc.result.isError

(***************************************************************************)
(* C25 as the code has it: every failing outcome carries a text, and       *)
(* isError = true except for an upstream answer with a GraphQL-level       *)
(* errors array, which is returned with its explanation and no error flag. *)
(***************************************************************************)
C25_FailuresFlaggedButErrors ==
    /\ C25_Failing => tc.result.isError = (tc.result.message # ResponseHasErrors)
    /\ tc.pc = "done" /\ tc.result.isError => tc.result.message \notin {Success, NothingFound}
    /\ QueryDone /\ (tc.status = "fail" \/ (tc.fetches = 1 /\ ~tc.responded))
          => tc.result.isError

\* An upstream answer with errors has been returned without the flag.
C25_Witness ==
    /\ QueryDone
    /\ tc.result.message = ResponseHasErrors
    /\ tc.result.detail = "{errors}"
    /\ ~tc.result.isError

(***************************************************************************)
(* C26  No exception leaves a tool handler: every call that ends, ends     *)
(* with a result, also when the upstream body is JSON but not an object.   *)
(***************************************************************************)
C26_NothingEscapes ==
    /\ ~tc.thrown
    /\ tc.pc = "done" => tc.result.message # "none"

\* The upstream answered null: reading data.errors threw and was caught.
C26_Witness ==
    /\ QueryDone
    /\ tc.result.detail = "data.errors"
    /\ tc.result.isError

(***************************************************************************)
(* C27  As stated: a query-graphql call is reported as "failed to execute" *)
(* only when the upstream request produced no response.                    *)
(***************************************************************************)
C27_UnreachableOnlyWithoutResponse ==
    QueryDone /\ tc.result.message = FailedToExecute => ~tc.responded

(***************************************************************************)
(* C30  No external call is retried.  In one reindex each chunk's          *)
(* embedding is requested exactly once (a chunk goes from queued to        *)
(* requested to settled, and never back), recreation and upsert are each   *)
(* called at most once (the reindex only moves forward through its calls), *)
(* and a settled reindex, failed or not, is not started again.  A tool     *)
(* call issues at most one embedding request and one vector query          *)
(* (search-schema) or at most one upstream request (query-graphql).        *)
(***************************************************************************)
ReindexStage(pc) ==
    CASE pc = "env" -> 0
      [] pc = "load" -> 1
      [] pc = "split" -> 2
      [] pc = "embed" -> 3
      [] pc = "recreate" -> 4
      [] pc = "upsert" -> 5
      [] pc = "settled" -> 6

C30_ToolCalls ==
    /\ tc.tool = "search-schema" => tc.embeds = 1 /\ tc.searches <= 1 /\ tc.fetches = 0
    /\ tc.tool = "query-graphql" => tc.embeds = 0 /\ tc.searches = 0 /\ tc.fetches <= 1
    /\ ReindexStage(rpc) > ReindexStage("embed") =>
          \A i \in DOMAIN vectors : vectors[i] \notin {Queued, Running}

C30_Step ==
    /\ \A i \in DOMAIN vectors :
          /\ i \in DOMAIN vectors'
          /\ vectors'[i] # vectors[i] =>
                \/ vectors[i] = Queued /\ vectors'[i] = Running
                \/ vectors[i] = Running /\ vectors'[i] \notin {Queued, Running}
    /\ rpc' # rpc => ReindexStage(rpc') > ReindexStage(rpc)
    /\ rpc = "settled" => outcome' = outcome /\ vectors' = vectors
    /\ tc'.tool = tc.tool /\ tc.pc \notin {"idle", "done"} =>
          /\ tc'.embeds >= tc.embeds
          /\ tc'.searches >= tc.searches
          /\ tc'.fetches >= tc.fetches

C30_NoRetry == [](C30_ToolCalls) /\ [][C30_Step]_vars

\* The reindex lost a chunk and its upsert failed; the server listens all the
\* same, and a query whose upstream could not be reached has been answered
\* after one request.
C30_Witness ==
    /\ rpc = "settled"
    /\ outcome = "qdrant-failed"
    /\ \E i \in DOMAIN vectors : vectors[i] = Null
    /\ serverInstance = "listening"
    /\ QueryDone
    /\ tc.fetches = 1
    /\ ~tc.responded
    /\ tc.result.message = FailedToExecute

C32_SameTextTwice ==
    /\ runs # <<>>
    /\ rpc = "settled"
    /\ runs[1].outcome \notin {"none", "load-failed", "split-failed"}
    /\ outcome \notin {"none", "load-failed", "split-failed"}
    /\ runs[1].docs = Len(vectors)

C32_SameCount ==
    C32_SameTextTwice => Cardinality(collection.points) = Cardinality(before.points)

(***************************************************************************)
(* C32 as the code has it: the counts are equal when in both runs every    *)
(* chunk was embedded and recreation and upsert succeeded; in general a    *)
(* reindex that completes leaves one point per chunk whose embedding       *)
(* succeeded in that run, whatever the run before left.                    *)
(***************************************************************************)
C32_SameCountIfBothComplete ==
    /\ C32_SameTextTwice /\ runs[1].outcome = "done" /\ runs[1].failed = 0
          /\ outcome = "done" /\ FailedChunks = {}
          => Cardinality(collection.points) = Cardinality(before.points)
    /\ rpc = "settled" /\ outcome = "done"
          => Cardinality(collection.points) = Cardinality(EmbeddedChunks)

\* Both runs indexed both chunks of the text.
C32_Witness ==
    /\ C32_SameTextTwice
    /\ runs[1] = [outcome |-> "done", docs |-> MaxLifeChunks, failed |-> 0]
    /\ outcome = "done"
    /\ FailedChunks = {}
    /\ Cardinality(collection.points) = MaxLifeChunks
    /\ Cardinality(before.points) = MaxLifeChunks

(***************************************************************************)
(* C33  Within a reindex recreateCollection is called only once every      *)
(* embedding call of the batch has settled, and upsert only once           *)
(* recreateCollection has succeeded: when it fails the reindex settles     *)
(* without an upsert, and nothing is written afterwards.                   *)
(***************************************************************************)
C33_Step ==
    /\ rpc' = "recreate" /\ rpc # "recreate" =>
          /\ rpc = "embed"
          /\ \A i \in DOMAIN vectors : vectors[i] \in {Null} \cup Dims
    /\ rpc' = "upsert" /\ rpc # "upsert" =>
          /\ rpc = "recreate"
          /\ collection'.exists
          /\ collection'.points = {}
          /\ collection'.size = validVectors(vectors)[1].vec
    /\ rpc = "recreate" /\ rpc' # "upsert" /\ collection' # collection =>
          /\ rpc' = "settled"
          /\ collection' = NoCollection
    /\ rpc = "settled" => rpc' = "settled" /\ collection' = collection
    /\ collection'.points # {} /\ collection' # collection => rpc = "upsert"

C33_RecreateThenUpsert ==
    /\ [](rpc \in {"recreate", "upsert"} =>
             \A i \in DOMAIN vectors : vectors[i] \in {Null} \cup Dims)
    /\ [][C33_Step]_vars

\* recreateCollection failed after it had deleted the old collection: the
\* reindex has settled and no point was written.
C33_Witness ==
    /\ rpc = "settled"
    /\ outcome = "qdrant-failed"
    /\ before.points # {}
    /\ collection = NoCollection
    /\ EmbeddedChunks # {}
    /\ FailedChunks # {}

(***************************************************************************)
(* C34  query-graphql checks in a fixed order - the variables' JSON, the   *)
(* query's syntax, the mutation gate - and answers at the first check that *)
(* fails; only a call that passes all three sends a request.  Invalid      *)
(* variables are answered "Invalid variables" with nothing sent, also when *)
(* the query is invalid or a mutation that is not allowed.                 *)
(***************************************************************************)
C34_Rejected(message) ==
    /\ tc.pc = "done"
    /\ tc.result.isError
    /\ tc.result.message = message
    /\ tc.fetches = 0
    /\ ~tc.responded

C34_ValidationOrder ==
    tc.tool = "query-graphql" =>
        IF tc.variables \notin {"absent", "", "{}", "null"}
        THEN C34_Rejected(InvalidVariables)
        ELSE IF \E i \in DOMAIN tc.query : tc.query[i] = "garbage"
        THEN C34_Rejected(InvalidQuery)
        ELSE IF (\E i \in DOMAIN tc.query : tc.query[i] = "mutation") /\ ~env.ALLOW_MUTATIONS
        THEN C34_Rejected(NotAllowed)
        ELSE tc.fetches = 1

\* Invalid variables with a mutation that is not allowed next to an invalid
\* definition.
C34_Witness ==
    /\ ~env.ALLOW_MUTATIONS
    /\ tc.query = <<"mutation", "garbage">>
    /\ tc.variables = "{"
    /\ C34_Rejected(InvalidVariables)

(***************************************************************************)
(* C35  The upstream status comes before the body: once the body has been  *)
(* read, a status that is not a success is answered "request failed"       *)
(* whatever the body holds, and the body is parsed and searched for        *)
(* GraphQL errors only after a success status.                             *)
(***************************************************************************)
C35_Step ==
    /\ tc.tool = "query-graphql" /\ tc.pc = "text"
    /\ tc'.pc = "done" /\ tc'.result.detail # "response.text"
    => IF tc.status # "ok"
       THEN /\ tc'.result.isError
            /\ tc'.result.message = RequestFailed
            /\ tc'.result.detail \in ResponseTexts
       ELSE tc'.result.message =
               CASE tc'.result.detail = "JSON.parse(responseText)" -> ParseFailed
                 [] tc'.result.detail = "data.errors" -> FailedToExecute
                 [] tc'.result.detail = "{errors}" -> ResponseHasErrors
                 [] OTHER -> Success

C35_StatusBeforeBody == [][C35_Step]_vars

\* A failure status whose body carries a GraphQL errors array.
C35_Witness ==
    /\ QueryDone
    /\ tc.status = "fail"
    /\ tc.result.detail = "{errors}"
    /\ tc.result.message = RequestFailed

(***************************************************************************)
(* C36  The registries are separate by kind of transport.  A session id    *)
(* issued by the legacy stream is answered 400 on /mcp and a session id    *)
(* issued by a stream-style handshake is answered 400 on /messages; each   *)
(* registry holds transports of its own kind only, and a step that closes  *)
(* or evicts a session of one kind leaves the other registry as it is.     *)
(***************************************************************************)
C36_IssuedTo(kind, id) ==
    \E t \in DOMAIN T : T[t].kind = kind /\ T[t].sessionId = id

C36_Step ==
    /\ ev'.op = "mcp" /\ ev'.auth = "next" /\ C36_IssuedTo("sse", ev'.hdr)
          => ev'.branch = "400" /\ T' = T
    /\ ev'.op = "messages" /\ ev'.auth = "next" /\ C36_IssuedTo("stream", ev'.hdr)
          => ev'.branch = "400" /\ T' = T
    /\ (\E t \in DOMAIN T : T[t].kind = "stream" /\ T'[t] # T[t])
          => sseTransports' = sseTransports
    /\ (\E t \in DOMAIN T : T[t].kind = "sse" /\ T'[t] # T[t])
          => streamableTransports' = streamableTransports

C36_RegistriesIsolated ==
    /\ [](/\ \A id \in DOMAIN streamableTransports :
                T[streamableTransports[id]].kind = "stream"
          /\ \A id \in DOMAIN sseTransports : T[sseTransports[id]].kind = "sse"
          /\ DOMAIN streamableTransports \cap DOMAIN sseTransports = {})
    /\ [][C36_Step]_vars

\* With a session of each kind registered, the stream session's id has been
\* answered 400 on /messages.
C36_Witness ==
    /\ ev.op = "messages"
    /\ ev.branch = "400"
    /\ ev.hdr \in DOMAIN streamableTransports
    /\ sseTransports # EmptyRegistry

(***************************************************************************)
(* C37  As stated: a server is connected only to a legacy session that is  *)
(* still registered, and a registered legacy session id never resolves to  *)
(* a transport that has no server connected to it.                         *)
(***************************************************************************)
C37_Step ==
    \A t \in DOMAIN T :
        T[t].kind = "sse" /\ ~T[t].started /\ T'[t].started
            => T[t].sessionId \in DOMAIN sseTransports

C37_ServerBoundWhileRegistered ==
    /\ [](\A id \in DOMAIN sseTransports : T[sseTransports[id]].started)
    /\ [][C37_Step]_vars

(***************************************************************************)
(* C38  As stated: once a termination signal has been received the process *)
(* eventually exits, during the startup reindex or while listening, and    *)
(* whatever sessions and push streams are open.                            *)
(***************************************************************************)
C38_ExitsAfterSigterm == (serverInstance = "closing") ~> (process # "running")

====
